---- MODULE Spec2Model ----
(***************************************************************************)
(* Model of the hyperlink correlation of DocCompare                        *)
(* (src/lib/compareDocxHyperlinks.js).                                     *)
(*                                                                         *)
(* A string is a sequence of one-character strings, so that joining,       *)
(* whitespace normalisation and key building are computed, not assumed.    *)
(* A link object is a record whose field id stands for the identity of     *)
(* the JavaScript object (two links with equal part, relId, url and        *)
(* anchorText are still two objects).  The JavaScript value null is the    *)
(* value Null.                                                             *)
(***************************************************************************)
EXTENDS Integers, Sequences, FiniteSets, TLC

VARIABLES
  files,              \* what each file holds: its hyperlinks in document order,
                      \* and the error its extraction fails with, if any
  filePathA,          \* first argument of the current call
  filePathB,          \* second argument of the current call
  linksA,             \* links extracted from the first file (before)
  linksB,             \* links extracted from the second file (after)
  pc,                 \* position inside compareDocxHyperlinks
  accountedA,         \* Set of consumed before links
  accountedB,         \* Set of consumed after links
  changedUrl,         \* array of {before, after}
  changedAnchorText,  \* array of {before, after}
  remainingA,         \* before links left after the first pass
  remainingB,         \* after links left after the first pass
  added,              \* result field
  removed,            \* result field
  matched,            \* history: the pairs consumed as true matches
  results,            \* history: what the first call on two different files
                      \* returned, for each order of the two
  thrown,             \* the error the current call was rejected with
  invocations,        \* the calls in flight at once, each with its own locals
  request             \* one request to the compare handler, with the handler's locals

vars == <<files, filePathA, filePathB, linksA, linksB, pc, accountedA, accountedB, changedUrl,
          changedAnchorText, remainingA, remainingB, added, removed,
          matched, results, thrown, invocations, request>>

----------------------------------------------------------------------------
(* Bounds of the model *)

MaxWide == 2     \* links of both files together, wide record families
MaxDeep == 4     \* links of both files together, narrow record families
MaxAsync == 2    \* links of both files together, calls in flight at once

----------------------------------------------------------------------------
(* Strings *)

Null == <<"null">>

NoError == "no error"

\* the characters /\s/ matches and .trim() strips: tab, line feed, vertical
\* tab, form feed, carriage return, space, no-break space, the Unicode space
\* separators, line and paragraph separator, byte order mark.  A character
\* that has no escape in a string of this module is written by its code point
Whitespace ==
  {"\t", "\n", "U+000B", "\f", "\r", " ", "U+00A0", "U+1680", "U+2000",
   "U+2001", "U+2002", "U+2003", "U+2004", "U+2005", "U+2006", "U+2007",
   "U+2008", "U+2009", "U+200A", "U+2028", "U+2029", "U+202F", "U+205F",
   "U+3000", "U+FEFF"}

NotFound == 0

Min(S) == CHOOSE x \in S : \A y \in S : x <= y

RECURSIVE dropLeadingWs(_)
dropLeadingWs(s) ==
  IF s = <<>> THEN <<>>
  ELSE IF Head(s) \in Whitespace THEN dropLeadingWs(Tail(s)) ELSE s

\* mutant: every whitespace character becomes a space, runs are kept
collapseWsEach(s) ==
  [i \in DOMAIN s |-> IF s[i] \in Whitespace THEN " " ELSE s[i]]

RECURSIVE collapseWs(_)
collapseWs(s) ==
  IF s = <<>> THEN <<>>
  ELSE IF Head(s) \in Whitespace
       THEN <<" ">> \o collapseWs(dropLeadingWs(Tail(s)))
       ELSE <<Head(s)>> \o collapseWs(Tail(s))

trim(s) ==
  LET t == dropLeadingWs(s)
      keep == {i \in 1..Len(t) : t[i] \notin Whitespace}
  IN IF keep = {} THEN <<>>
     ELSE SubSeq(t, 1, CHOOSE i \in keep : \A j \in keep : j <= i)

\* mutant: String(url) without the null test
normalizeUrlStringified(url) ==
  IF url = Null THEN <<"n", "u", "l", "l">> ELSE url

normalizeUrl(url) == IF url = Null THEN <<>> ELSE url

\* mutant: the null test is missing before .replace is called
textOrEmptyNoTest(text) == text

\* the receiver of .replace: text == null ? '' : String(text)
textOrEmpty(text) == IF text = Null THEN <<>> ELSE text

normalizeText(text) == trim(collapseWs(textOrEmpty(text)))

KeySeparator == <<"|", "|">>

anchorKey(link) == link.part \o KeySeparator \o normalizeText(link.anchorText)

anchorKeys(links) == [i \in 1..Len(links) |-> anchorKey(links[i])]

urlKey(link) == link.part \o KeySeparator \o normalizeUrl(link.url)

urlKeys(links) == [i \in 1..Len(links) |-> urlKey(links[i])]

----------------------------------------------------------------------------
(* Map and Set helpers *)

RECURSIVE dedupe(_)
dedupe(s) ==
  IF s = <<>> THEN <<>>
  ELSE LET init == dedupe(SubSeq(s, 1, Len(s) - 1))
           last == s[Len(s)]
       IN IF \E i \in 1..Len(init) : init[i] = last THEN init
          ELSE Append(init, last)

RECURSIVE selectAt(_, _, _)
selectAt(arr, index, skip) ==
  IF index > Len(arr) THEN <<>>
  ELSE IF index \in skip THEN selectAt(arr, index + 1, skip)
       ELSE <<arr[index]>> \o selectAt(arr, index + 1, skip)

\* keyAt[i] is keyFn(links[i]); a Map keeps its keys in insertion order
buildMap(links, keyAt) ==
  [keys |-> dedupe(keyAt),
   get  |-> [k \in {keyAt[i] : i \in DOMAIN keyAt} |->
              selectAt(links, 1, {i \in DOMAIN keyAt : keyAt[i] # k})]]

mapGet(map, key) == IF key \in DOMAIN map.get THEN map.get[key] ELSE <<>>

\* mutant: the filter keeps every link
filterKeepAll(links, accounted) == links

filterNotIn(links, accounted) ==
  LET notAccounted(link) == link \notin accounted
  IN SelectSeq(links, notAccounted)

----------------------------------------------------------------------------
(* First pass: groups keyed by part and anchor text.                       *)
(* The working state s of one pass is the record                           *)
(*   usedB, matchedA : the per-group markers (positions in arrB, arrA)     *)
(*   accountedA, accountedB, changed, matched : the arguments the pass     *)
(*   updates in place.                                                     *)
(* Positions run from 1; findIndex's -1 is NotFound.                       *)

\* mutant: the search does not skip the used entries
findSameUrlAnyUse(arrB, usedB, linkA) ==
  LET hits == {indexB \in 1..Len(arrB) :
                 normalizeUrl(linkA.url) = normalizeUrl(arrB[indexB].url)}
  IN IF hits = {} THEN NotFound ELSE Min(hits)

\* mutant: the search does not compare the URLs
findUnusedAnyUrl(arrB, usedB, linkA) ==
  LET hits == {indexB \in 1..Len(arrB) : indexB \notin usedB}
  IN IF hits = {} THEN NotFound ELSE Min(hits)

\* mutant: the last unused after link with the URL is taken
findUnusedSameUrlLast(arrB, usedB, linkA) ==
  LET hits == {indexB \in 1..Len(arrB) :
                 /\ indexB \notin usedB
                 /\ normalizeUrl(linkA.url) = normalizeUrl(arrB[indexB].url)}
  IN IF hits = {} THEN NotFound
     ELSE CHOOSE x \in hits : \A y \in hits : y <= x

findUnusedSameUrl(arrB, usedB, linkA) ==
  LET hits == {indexB \in 1..Len(arrB) :
                 /\ indexB \notin usedB
                 /\ normalizeUrl(linkA.url) = normalizeUrl(arrB[indexB].url)}
  IN IF hits = {} THEN NotFound ELSE Min(hits)

\* mutant: the last unused after link is taken
findUnusedLast(arrB, usedB) ==
  LET hits == {indexB \in 1..Len(arrB) : indexB \notin usedB}
  IN IF hits = {} THEN NotFound
     ELSE CHOOSE x \in hits : \A y \in hits : y <= x

findUnused(arrB, usedB) ==
  LET hits == {indexB \in 1..Len(arrB) : indexB \notin usedB}
  IN IF hits = {} THEN NotFound ELSE Min(hits)

RECURSIVE anchorSameUrlLoop(_, _, _, _)
anchorSameUrlLoop(arrA, arrB, indexA, s) ==
  IF indexA > Len(arrA) THEN s
  ELSE LET linkA == arrA[indexA]
           matchIndex == findUnusedSameUrl(arrB, s.usedB, linkA)
       IN anchorSameUrlLoop(arrA, arrB, indexA + 1,
            IF matchIndex # NotFound
            THEN [s EXCEPT !.usedB = @ \cup {matchIndex},
                           !.matchedA = @ \cup {indexA},
                           !.accountedA = @ \cup {linkA},
                           !.accountedB = @ \cup {arrB[matchIndex]},
                           !.matched = Append(@, [before |-> linkA,
                                                  after |-> arrB[matchIndex]])]
            ELSE s)

RECURSIVE anchorChangedUrlLoop(_, _, _, _)
anchorChangedUrlLoop(arrA, arrB, indexA, s) ==
  IF indexA > Len(arrA) THEN s
  ELSE IF indexA \in s.matchedA
       THEN anchorChangedUrlLoop(arrA, arrB, indexA + 1, s)
       ELSE LET linkA == arrA[indexA]
                matchIndex == findUnused(arrB, s.usedB)
            IN anchorChangedUrlLoop(arrA, arrB, indexA + 1,
                 IF matchIndex # NotFound
                 THEN LET linkB == arrB[matchIndex]
                      IN [s EXCEPT !.usedB = @ \cup {matchIndex},
                                   !.matchedA = @ \cup {indexA},
                                   !.changed = Append(@, [before |-> linkA,
                                                          after |-> linkB]),
                                   !.accountedA = @ \cup {linkA},
                                   !.accountedB = @ \cup {linkB}]
                 ELSE s)

\* mutant: usedB and matchedA live on from the group before
anchorGroupStale(arrA, arrB, s) ==
  anchorChangedUrlLoop(arrA, arrB, 1, anchorSameUrlLoop(arrA, arrB, 1, s))

anchorGroup(arrA, arrB, s) ==
  LET fresh == [s EXCEPT !.usedB = {}, !.matchedA = {}]
  IN anchorChangedUrlLoop(arrA, arrB, 1,
       anchorSameUrlLoop(arrA, arrB, 1, fresh))

RECURSIVE anchorGroups(_, _, _, _)
anchorGroups(mapA, mapB, allKeys, s) ==
  IF allKeys = <<>> THEN s
  ELSE anchorGroups(mapA, mapB, Tail(allKeys),
         anchorGroup(mapGet(mapA, Head(allKeys)),
                     mapGet(mapB, Head(allKeys)), s))

compareByPartAndAnchor(lA, lB, accA, accB, chUrl, hist) ==
  LET mapA == buildMap(lA, anchorKeys(lA))
      mapB == buildMap(lB, anchorKeys(lB))
      allKeys == dedupe(mapA.keys \o mapB.keys)
  IN anchorGroups(mapA, mapB, allKeys,
       [usedB |-> {}, matchedA |-> {}, accountedA |-> accA,
        accountedB |-> accB, changed |-> chUrl, matched |-> hist])

----------------------------------------------------------------------------
(* Second pass: groups keyed by part and URL, over the links the first     *)
(* pass left.                                                              *)

findUnusedSameText(arrB, usedB, linkA) ==
  LET hits == {indexB \in 1..Len(arrB) :
                 /\ indexB \notin usedB
                 /\ normalizeText(linkA.anchorText)
                      = normalizeText(arrB[indexB].anchorText)}
  IN IF hits = {} THEN NotFound ELSE Min(hits)

RECURSIVE urlSameTextLoop(_, _, _, _)
urlSameTextLoop(arrA, arrB, indexA, s) ==
  IF indexA > Len(arrA) THEN s
  ELSE LET linkA == arrA[indexA]
           matchIndex == findUnusedSameText(arrB, s.usedB, linkA)
       IN urlSameTextLoop(arrA, arrB, indexA + 1,
            IF matchIndex # NotFound
            THEN [s EXCEPT !.usedB = @ \cup {matchIndex},
                           !.matchedA = @ \cup {indexA},
                           !.accountedA = @ \cup {linkA},
                           !.accountedB = @ \cup {arrB[matchIndex]},
                           !.matched = Append(@, [before |-> linkA,
                                                  after |-> arrB[matchIndex]])]
            ELSE s)

\* mutant: the last possible pair is not formed
pairCountOneLess(restA, restB) ==
  IF Len(restA) = 0 \/ Len(restB) = 0 THEN 0
  ELSE IF Len(restA) <= Len(restB) THEN Len(restA) - 1 ELSE Len(restB) - 1

pairCount(restA, restB) ==
  IF Len(restA) <= Len(restB) THEN Len(restA) ELSE Len(restB)

\* mutant: the after links are taken from the end of the rest
pairAtFromEnd(restA, restB, index) ==
  [before |-> restA[index], after |-> restB[Len(restB) - index + 1]]

pairAt(restA, restB, index) == [before |-> restA[index], after |-> restB[index]]

\* mutant: the paired after link is not marked as accounted
RECURSIVE urlPairLoopNoMark(_, _, _, _)
urlPairLoopNoMark(restA, restB, index, s) ==
  IF index > pairCount(restA, restB) THEN s
  ELSE LET pair == pairAt(restA, restB, index)
       IN urlPairLoopNoMark(restA, restB, index + 1,
            [s EXCEPT !.changed = Append(@, pair),
                      !.accountedA = @ \cup {pair.before}])

RECURSIVE urlPairLoop(_, _, _, _)
urlPairLoop(restA, restB, index, s) ==
  IF index > pairCount(restA, restB) THEN s
  ELSE LET pair == pairAt(restA, restB, index)
       IN urlPairLoop(restA, restB, index + 1,
            [s EXCEPT !.changed = Append(@, pair),
                      !.accountedA = @ \cup {pair.before},
                      !.accountedB = @ \cup {pair.after}])

urlGroup(arrA, arrB, s) ==
  LET fresh == [s EXCEPT !.usedB = {}, !.matchedA = {}]
      t == urlSameTextLoop(arrA, arrB, 1, fresh)
      restA == selectAt(arrA, 1, t.matchedA)
      restB == selectAt(arrB, 1, t.usedB)
  IN urlPairLoop(restA, restB, 1, t)

RECURSIVE urlGroups(_, _, _, _)
urlGroups(mapA, mapB, allKeys, s) ==
  IF allKeys = <<>> THEN s
  ELSE urlGroups(mapA, mapB, Tail(allKeys),
         urlGroup(mapGet(mapA, Head(allKeys)),
                  mapGet(mapB, Head(allKeys)), s))

compareByPartAndUrl(lA, lB, accA, accB, chText, hist) ==
  LET mapA == buildMap(lA, urlKeys(lA))
      mapB == buildMap(lB, urlKeys(lB))
      allKeys == dedupe(mapA.keys \o mapB.keys)
  IN urlGroups(mapA, mapB, allKeys,
       [usedB |-> {}, matchedA |-> {}, accountedA |-> accA,
        accountedB |-> accB, changed |-> chText, matched |-> hist])

----------------------------------------------------------------------------
(* Inputs: the hyperlinks of the two uploaded files.  A hyperlink of a     *)
(* file is written as a record: part is the part it stands in, relId its   *)
(* r:id, url the Target of its relationship (Null when the part has no     *)
(* hyperlink relationship of that id), anchorText the text collected       *)
(* under its w:hyperlink element.                                          *)

Paths == {"docxA", "docxB"}

NoPath == "none"

PartP == <<"p">>
PartPBar == <<"p", "|", "|">>
RelId == <<"r", "I", "d", "1">>
UrlX == <<"x">>
UrlY == <<"y">>
UrlZ == <<"z">>
UrlBarX == <<"|", "|", "x">>
TextL == <<"L">>
TextM == <<"M">>
TextBarL == <<"|", "|", "L">>
TextSpL == <<"\n", "L", "\t", " ">>
TextAB == <<"a", " ", "b">>
TextATabB == <<"a", "\t", "U+00A0", "b", "\r">>
TextAJoinB == <<"a", "b">>

LinkRecords(parts, urls, texts) ==
  {[part |-> p, relId |-> RelId, url |-> u, anchorText |-> t] :
     p \in parts, u \in urls, t \in texts}

\* two parts, URLs and anchor texts that hold the key separator
WideLinks == LinkRecords({PartP, PartPBar}, {UrlX, UrlBarX}, {TextL, TextBarL})

\* unresolved and empty URLs, anchor texts that differ in whitespace only
LooseLinks == LinkRecords({PartP}, {Null, <<>>, UrlX}, {TextL, TextSpL, TextM})

\* one group of the first pass with three destinations
GroupLinks == LinkRecords({PartP}, {UrlX, UrlY, UrlZ}, {TextL})

\* two anchor texts and two destinations in one part
CrossLinks == LinkRecords({PartP}, {UrlX, UrlY}, {TextL, TextM})

\* unresolved or empty URLs with empty anchor texts
EmptyLinks == LinkRecords({PartP}, {Null, <<>>}, {<<>>, TextL})

\* unresolved or empty URLs with absent or empty anchor texts
NullLinks == LinkRecords({PartP}, {Null, <<>>}, {Null, <<>>, TextL})

\* anchor texts of two words that differ in their whitespace, or in no
\* whitespace at all
SpaceLinks == LinkRecords({PartP}, {UrlX}, {TextAB, TextATabB, TextAJoinB})

ListsUpTo(S, n) == UNION {[1..k -> S] : k \in 0..n}

\* the two uploads, the one with more links named first: a call takes the
\* two files in either order, so each list is the before list of some call
PairsUpTo(S, n) ==
  {pair \in ListsUpTo(S, n) \X ListsUpTo(S, n) :
     /\ Len(pair[1]) + Len(pair[2]) <= n
     /\ Len(pair[1]) >= Len(pair[2])}

\* links that can change their URL, change their anchor text, come or go
ChangeLinks == {l \in CrossLinks : l.url = UrlX \/ l.anchorText = TextL}

DocumentXmlNotFound == "word/document.xml not found in DOCX"

\* the message of the error readFile(path) rejects with, NoError when the
\* file is opened and read
readFileError(kind, path) ==
  IF kind = "absent"
  THEN "ENOENT: no such file or directory, open '" \o path \o "'"
  ELSE IF kind = "directory"
       THEN "EISDIR: illegal operation on a directory, read"
       ELSE NoError

\* what JSZip.loadAsync rejects with on a buffer that is no zip archive,
\* and what the XML parser throws on a part it cannot parse
NotAZip == "not a zip archive"

ParserMessage == "unclosed token"

\* String.prototype.startsWith
startsWith(string, prefix) ==
  /\ Len(string) >= Len(prefix)
  /\ SubSeq(string, 1, Len(prefix)) = prefix

ReadFailedAt == "Failed to read file at "

OpenFailedAt == "Failed to open DOCX file at "

ParseFailedIn == "Failed to parse XML in "

\* the errors extractHyperlinks throws on a file at this path: the file is
\* absent (line 151), is no archive (159), holds a relationships file that
\* does not parse (58 from 107), lacks word/document.xml (166), lacks a
\* part its relationships name (185), holds a part that does not parse
\* (58 from 196)
Failures(path) ==
  {ReadFailedAt \o path \o ": " \o readFileError("absent", path),
   OpenFailedAt \o path \o ": " \o NotAZip,
   ParseFailedIn \o "word/_rels/p.rels: " \o ParserMessage,
   DocumentXmlNotFound,
   "word/p not found in DOCX",
   ParseFailedIn \o "word/p: " \o ParserMessage}

\* a file that is read, opened and parsed, and holds these hyperlinks
Docx(hyperlinks) == [extract |-> NoError, links |-> hyperlinks]

DocxPairs(pairs) == {<<Docx(pair[1]), Docx(pair[2])>> : pair \in pairs}

\* the file at a path: one that holds this hyperlink, or one on which the
\* extraction fails with one of these errors
FailingOrNot(hyperlink, errors) ==
  {Docx(<<hyperlink>>)}
    \cup {[extract |-> error, links |-> <<>>] : error \in errors}

\* two files of which one at least fails in its extraction: the first in
\* any of the ways, the second at the first await or among the parts (a
\* call takes the two files in either order)
FailingUploads ==
  {pair \in FailingOrNot([part |-> PartP, relId |-> RelId, url |-> UrlX,
                          anchorText |-> TextL], Failures("docxA"))
             \X FailingOrNot([part |-> PartP, relId |-> RelId, url |-> UrlY,
                              anchorText |-> TextL],
                             {e \in Failures("docxB") :
                                \/ startsWith(e, ReadFailedAt)
                                \/ e = DocumentXmlNotFound}) :
     pair[1].extract # NoError \/ pair[2].extract # NoError}

Uploads ==
  DocxPairs(
    PairsUpTo(WideLinks, MaxWide) \cup PairsUpTo(GroupLinks, MaxDeep)
      \cup PairsUpTo(ChangeLinks, MaxDeep)
      \cup PairsUpTo(EmptyLinks, MaxWide) \cup PairsUpTo(SpaceLinks, MaxWide))
    \cup FailingUploads

\* lines 70-94 and 128: one link object per w:hyperlink element.  The url
\* is null when there is no r:id, no relationship of that id, or an empty
\* Target; the anchor text is stored normalised.  The objects are new on
\* every call; id is the identity of the object inside its list
extractHyperlinksFromDocument(hyperlinks) ==
  [i \in 1..Len(hyperlinks) |->
     [id |-> i,
      part |-> hyperlinks[i].part,
      relId |-> hyperlinks[i].relId,
      url |-> IF hyperlinks[i].relId = <<>> \/ hyperlinks[i].url = <<>>
              THEN Null ELSE hyperlinks[i].url,
      anchorText |-> normalizeText(hyperlinks[i].anchorText)]]

\* lines 145-204: the error the promise rejects with, or the links it is
\* fulfilled with
extractHyperlinks(filePath) ==
  IF files[filePath].extract # NoError
  THEN [error |-> files[filePath].extract, links |-> <<>>]
  ELSE [error |-> NoError,
        links |-> extractHyperlinksFromDocument(files[filePath].links)]

AsyncUploads == DocxPairs(PairsUpTo(ChangeLinks, MaxAsync)) \cup FailingUploads

Invocations == {"first", "second"}

\* the value of a promise that has not settled: no list of links and no
\* result
Pending == <<[pending |-> TRUE]>>

\* where one extractHyperlinks promise stands: awaiting readFile (149),
\* awaiting JSZip.loadAsync (157), awaiting the relationship files and the
\* parts (162-201: one await per file at 106 and at 195, nothing of the call
\* changes from one to the next), settled
Stages == <<"readFile", "loadAsync", "parts", "fulfilled", "rejected">>

StageOf(name) == CHOOSE n \in DOMAIN Stages : Stages[n] = name

\* the await at which an extraction throws this error: that of readFile
\* for the error of line 151, that of JSZip.loadAsync for the error of
\* line 159, one among the relationship files and the parts for the
\* errors of lines 58, 166 and 185
FailingStage(error) ==
  IF startsWith(error, ReadFailedAt) THEN "readFile"
  ELSE IF startsWith(error, OpenFailedAt) THEN "loadAsync"
       ELSE "parts"

NoRequest == [pc |-> "none"]

NotInvoked ==
  [pc |-> "idle", filePathA |-> NoPath, filePathB |-> NoPath,
   stage |-> <<1, 1>>, values |-> <<Pending, Pending>>, order |-> <<>>,
   result |-> Pending, thrown |-> NoError]

----------------------------------------------------------------------------
(* compareDocxHyperlinks: the call, the settling of its two extractions,   *)
(* then one action per statement                                           *)

Init ==
  /\ \E pair \in Uploads : files = [docxA |-> pair[1], docxB |-> pair[2]]
  /\ filePathA = NoPath
  /\ filePathB = NoPath
  /\ linksA = <<>>
  /\ linksB = <<>>
  /\ pc = "idle"
  /\ accountedA = {}
  /\ accountedB = {}
  /\ changedUrl = <<>>
  /\ changedAnchorText = <<>>
  /\ remainingA = <<>>
  /\ remainingB = <<>>
  /\ added = <<>>
  /\ removed = <<>>
  /\ matched = <<>>
  /\ results = <<>>
  /\ thrown = NoError
  /\ invocations = [i \in Invocations |-> NotInvoked]
  /\ request = NoRequest

\* lines 328-332: the call starts the extraction of both files and awaits
\* Promise.all; the two paths may be the same
Call(pathA, pathB) ==
  /\ pc \in {"idle", "returned", "thrown"}
  /\ filePathA' = pathA
  /\ filePathB' = pathB
  /\ thrown' = NoError
  /\ pc' = "extracting"
  /\ UNCHANGED <<request, invocations, files, results, linksA, linksB,
                 accountedA, accountedB, changedUrl, changedAnchorText,
                 remainingA, remainingB, added, removed, matched>>

\* lines 329-332: extraction k is rejected and the call throws its error
\* (when both fail, the one that is rejected first)
Rejected(k) ==
  /\ pc = "extracting"
  /\ LET filePath == IF k = 1 THEN filePathA ELSE filePathB
     IN /\ extractHyperlinks(filePath).error # NoError
        /\ thrown' = extractHyperlinks(filePath).error
  /\ pc' = "thrown"
  /\ UNCHANGED <<request, invocations, files, results, filePathA, filePathB,
                 linksA, linksB, accountedA, accountedB, changedUrl,
                 changedAnchorText, remainingA, remainingB, added, removed,
                 matched>>

\* mutant: the working state is kept from the call before
FulfilledStale ==
  /\ pc = "extracting"
  /\ extractHyperlinks(filePathA).error = NoError
  /\ extractHyperlinks(filePathB).error = NoError
  /\ linksA' = extractHyperlinks(filePathA).links
  /\ linksB' = extractHyperlinks(filePathB).links
  /\ pc' = "pass1"
  /\ UNCHANGED <<request, thrown, invocations, files, results, filePathA,
                 filePathB, accountedA, accountedB, changedUrl,
                 changedAnchorText, remainingA, remainingB, added, removed,
                 matched>>

\* lines 329-337: both extractions are fulfilled; the call takes the two
\* lists and creates its working state
Fulfilled ==
  /\ pc = "extracting"
  /\ extractHyperlinks(filePathA).error = NoError
  /\ extractHyperlinks(filePathB).error = NoError
  /\ linksA' = extractHyperlinks(filePathA).links
  /\ linksB' = extractHyperlinks(filePathB).links
  /\ accountedA' = {}
  /\ accountedB' = {}
  /\ changedUrl' = <<>>
  /\ changedAnchorText' = <<>>
  /\ remainingA' = <<>>
  /\ remainingB' = <<>>
  /\ added' = <<>>
  /\ removed' = <<>>
  /\ matched' = <<>>
  /\ pc' = "pass1"
  /\ UNCHANGED <<request, thrown, invocations, files, results, filePathA,
                 filePathB>>

\* line 339
PassAnchor ==
  /\ pc = "pass1"
  /\ LET s == compareByPartAndAnchor(linksA, linksB, accountedA, accountedB,
                                     changedUrl, matched)
     IN /\ accountedA' = s.accountedA
        /\ accountedB' = s.accountedB
        /\ changedUrl' = s.changed
        /\ matched' = s.matched
  /\ pc' = "filter"
  /\ UNCHANGED <<request, thrown, invocations, files, filePathA, filePathB, linksA, linksB,
                 changedAnchorText, remainingA, remainingB, added, removed,
                 results>>

\* mutant: the filter result replaces the input lists
FilterInPlace ==
  /\ pc = "filter"
  /\ remainingA' = filterNotIn(linksA, accountedA)
  /\ remainingB' = filterNotIn(linksB, accountedB)
  /\ linksA' = remainingA'
  /\ linksB' = remainingB'
  /\ pc' = "pass2"
  /\ UNCHANGED <<request, thrown, invocations, files, filePathA, filePathB, accountedA, accountedB,
                 changedUrl, changedAnchorText, added, removed, matched,
                 results>>

\* lines 341-342
Filter ==
  /\ pc = "filter"
  /\ remainingA' = filterNotIn(linksA, accountedA)
  /\ remainingB' = filterNotIn(linksB, accountedB)
  /\ pc' = "pass2"
  /\ UNCHANGED <<request, thrown, invocations, files, filePathA, filePathB, linksA, linksB, accountedA,
                 accountedB, changedUrl, changedAnchorText, added, removed,
                 matched, results>>

\* line 344
PassUrl ==
  /\ pc = "pass2"
  /\ LET s == compareByPartAndUrl(remainingA, remainingB, accountedA,
                                  accountedB, changedAnchorText, matched)
     IN /\ accountedA' = s.accountedA
        /\ accountedB' = s.accountedB
        /\ changedAnchorText' = s.changed
        /\ matched' = s.matched
  /\ pc' = "classify"
  /\ UNCHANGED <<request, thrown, invocations, files, filePathA, filePathB, linksA, linksB, changedUrl,
                 remainingA, remainingB, added, removed, results>>

\* lines 346-354
Return ==
  /\ pc = "classify"
  /\ added' = filterNotIn(linksB, accountedB)
  /\ removed' = filterNotIn(linksA, accountedA)
  /\ results' = IF <<filePathA, filePathB>> \in DOMAIN results
                      \/ filePathA = filePathB
                 THEN results
                 ELSE (<<filePathA, filePathB>> :>
                         [added |-> added', removed |-> removed',
                          changedUrl |-> changedUrl,
                          changedAnchorText |-> changedAnchorText])
                      @@ results
  /\ pc' = "returned"
  /\ UNCHANGED <<request, thrown, invocations, files, filePathA, filePathB, linksA, linksB, accountedA,
                 accountedB, changedUrl, changedAnchorText, remainingA,
                 remainingB, matched>>

Next ==
  \/ \E pathA \in Paths, pathB \in Paths : Call(pathA, pathB)
  \/ \E k \in 1..2 : Rejected(k)
  \/ Fulfilled
  \/ PassAnchor
  \/ Filter
  \/ PassUrl
  \/ Return

Spec == Init /\ [][Next]_vars

----------------------------------------------------------------------------
(* The two passes as functions of their arguments: compareByPartAndAnchor  *)
(* and compareByPartAndUrl take any two lists of link objects, also lists  *)
(* no extraction returns (an absent or unnormalised anchorText, a url ''). *)
(* The lists are drawn at the start; lines 339-354 are applied to them.    *)

PassLinks ==
  PairsUpTo(NullLinks, MaxWide) \cup PairsUpTo(LooseLinks, MaxWide)
    \cup PairsUpTo(SpaceLinks, MaxWide) \cup PairsUpTo(WideLinks, MaxWide)

\* link objects with the given fields, new objects in each list
Objects(links) ==
  [i \in 1..Len(links) |->
     [id |-> i, part |-> links[i].part, relId |-> links[i].relId,
      url |-> links[i].url, anchorText |-> links[i].anchorText]]

PassInit ==
  /\ files = [docxA |-> Docx(<<>>), docxB |-> Docx(<<>>)]
  /\ filePathA = NoPath
  /\ filePathB = NoPath
  /\ \E pair \in PassLinks, swap \in BOOLEAN :
       /\ linksA = Objects(IF swap THEN pair[2] ELSE pair[1])
       /\ linksB = Objects(IF swap THEN pair[1] ELSE pair[2])
  /\ pc = "pass1"
  /\ accountedA = {}
  /\ accountedB = {}
  /\ changedUrl = <<>>
  /\ changedAnchorText = <<>>
  /\ remainingA = <<>>
  /\ remainingB = <<>>
  /\ added = <<>>
  /\ removed = <<>>
  /\ matched = <<>>
  /\ results = <<>>
  /\ thrown = NoError
  /\ invocations = [i \in Invocations |-> NotInvoked]
  /\ request = NoRequest

PassNext ==
  \/ PassAnchor
  \/ Filter
  \/ PassUrl
  \/ Return

PassSpec == PassInit /\ [][PassNext]_vars

----------------------------------------------------------------------------
(* Calls in flight at once.  Every call has its own locals; the two        *)
(* extractions of a call advance at their awaits, in any interleaving      *)
(* with each other and with the other call; the statements after the       *)
(* await of Promise.all run without a break.                               *)

\* lines 334-354 on the destructured [linksA, linksB]
correlate(lA, lB) ==
  LET s1 == compareByPartAndAnchor(lA, lB, {}, {}, <<>>, <<>>)
      restA == filterNotIn(lA, s1.accountedA)
      restB == filterNotIn(lB, s1.accountedB)
      s2 == compareByPartAndUrl(restA, restB, s1.accountedA, s1.accountedB,
                                <<>>, s1.matched)
  IN [added |-> filterNotIn(lB, s2.accountedB),
      removed |-> filterNotIn(lA, s2.accountedA),
      changedUrl |-> s1.changed,
      changedAnchorText |-> s2.changed]

\* mutant: the values are kept in the order the promises are fulfilled
settleInArrivalOrder(values, index, value) ==
  IF values[1] = Pending THEN [values EXCEPT ![1] = value]
  ELSE [values EXCEPT ![2] = value]

\* Promise.all keeps each value at the index of its promise
settle(values, index, value) == [values EXCEPT ![index] = value]

AsyncInit ==
  /\ \E pair \in AsyncUploads : files = [docxA |-> pair[1], docxB |-> pair[2]]
  /\ filePathA = NoPath
  /\ filePathB = NoPath
  /\ linksA = <<>>
  /\ linksB = <<>>
  /\ pc = "idle"
  /\ accountedA = {}
  /\ accountedB = {}
  /\ changedUrl = <<>>
  /\ changedAnchorText = <<>>
  /\ remainingA = <<>>
  /\ remainingB = <<>>
  /\ added = <<>>
  /\ removed = <<>>
  /\ matched = <<>>
  /\ results = <<>>
  /\ thrown = NoError
  /\ invocations = [i \in Invocations |-> NotInvoked]
  /\ request = NoRequest

\* line 328-332: the call starts both extractions
Invoke(i, pathA, pathB) ==
  /\ invocations[i].pc = "idle"
  /\ invocations' = [invocations EXCEPT ![i] =
        [@ EXCEPT !.pc = "extracting", !.filePathA = pathA,
                  !.filePathB = pathB]]
  /\ UNCHANGED <<request, thrown, files, filePathA, filePathB, linksA, linksB, pc,
                 accountedA,
                 accountedB, changedUrl, changedAnchorText, remainingA,
                 remainingB, added, removed, matched, results>>

\* the file extraction k of call i works on
ExtractedPath(i, k) ==
  IF k = 1 THEN invocations[i].filePathA ELSE invocations[i].filePathB

\* the await extraction k of call i stands at throws
Throws(i, k) ==
  /\ extractHyperlinks(ExtractedPath(i, k)).error # NoError
  /\ Stages[invocations[i].stage[k]]
       = FailingStage(extractHyperlinks(ExtractedPath(i, k)).error)

\* one await of extraction k of call i returns (lines 149, 157); the
\* extraction goes on whether or not the call still waits for it; an
\* await that throws does not return
Await(i, k) ==
  /\ invocations[i].pc \in {"extracting", "thrown"}
  /\ Stages[invocations[i].stage[k]] \in {"readFile", "loadAsync"}
  /\ ~Throws(i, k)
  /\ invocations' = [invocations EXCEPT ![i].stage[k] = @ + 1]
  /\ UNCHANGED <<request, thrown, files, filePathA, filePathB, linksA, linksB, pc,
                 accountedA,
                 accountedB, changedUrl, changedAnchorText, remainingA,
                 remainingB, added, removed, matched, results>>

\* extraction k of call i throws at the await it stands at (lines 58, 151,
\* 159, 166, 185); the first rejection rejects Promise.all and the call
\* throws its error
Reject(i, k) ==
  /\ invocations[i].pc \in {"extracting", "thrown"}
  /\ Throws(i, k)
  /\ invocations' = [invocations EXCEPT ![i] =
        [@ EXCEPT !.stage[k] = StageOf("rejected"),
                  !.pc = "thrown",
                  !.thrown = IF invocations[i].pc = "thrown" THEN @
                             ELSE extractHyperlinks(ExtractedPath(i, k)).error]]
  /\ UNCHANGED <<request, thrown, files, filePathA, filePathB, linksA, linksB, pc,
                 accountedA,
                 accountedB, changedUrl, changedAnchorText, remainingA,
                 remainingB, added, removed, matched, results>>

\* extraction k of call i returns its hyperlinks (line 203)
Fulfil(i, k) ==
  /\ invocations[i].pc \in {"extracting", "thrown"}
  /\ Stages[invocations[i].stage[k]] = "parts"
  /\ ~Throws(i, k)
  /\ invocations' = [invocations EXCEPT ![i] =
        [@ EXCEPT !.stage[k] = @ + 1,
                  !.values = settle(@, k,
                               extractHyperlinks(ExtractedPath(i, k)).links),
                  !.order = Append(@, k)]]
  /\ UNCHANGED <<request, thrown, files, filePathA, filePathB, linksA, linksB, pc,
                 accountedA,
                 accountedB, changedUrl, changedAnchorText, remainingA,
                 remainingB, added, removed, matched, results>>

\* lines 329-354: Promise.all is fulfilled and the call runs to its return
Resume(i) ==
  /\ invocations[i].pc = "extracting"
  /\ \A k \in 1..2 : Stages[invocations[i].stage[k]] = "fulfilled"
  /\ invocations' = [invocations EXCEPT ![i] =
        [@ EXCEPT !.pc = "returned",
                  !.result = correlate(invocations[i].values[1],
                                       invocations[i].values[2])]]
  /\ UNCHANGED <<request, thrown, files, filePathA, filePathB, linksA, linksB, pc,
                 accountedA,
                 accountedB, changedUrl, changedAnchorText, remainingA,
                 remainingB, added, removed, matched, results>>

AsyncNext ==
  \/ \E i \in Invocations, pathA \in Paths, pathB \in Paths :
       Invoke(i, pathA, pathB)
  \/ \E i \in Invocations, k \in 1..2 : Await(i, k)
  \/ \E i \in Invocations, k \in 1..2 : Reject(i, k)
  \/ \E i \in Invocations, k \in 1..2 : Fulfil(i, k)
  \/ \E i \in Invocations : Resume(i)

AsyncSpec == AsyncInit /\ [][AsyncNext]_vars

----------------------------------------------------------------------------
(* The compare handler (src/pages/api/compare.js), the handler that diffs  *)
(* the HTML alone (src/unnamed/part_001) and the conversion they call      *)
(* (src/lib/docx.js).  One request is followed from its arrival to the     *)
(* completion of the handler; the promises the handler starts settle in    *)
(* any order, also after the handler has gone on without them.             *)

\* the two API handlers a request can arrive at
CompareHandler == "src/pages/api/compare.js"

HtmlHandler == "src/unnamed/part_001"

Handlers == {CompareHandler, HtmlHandler}

Missing == [undefined |-> TRUE]

Unset == [unset |-> TRUE]

Fields == {"docxA", "docxB"}

AllowedMime ==
  "application/vnd.openxmlformats-officedocument.wordprocessingml.document"

OtherMime == "application/octet-stream"

MissingFileMessage == "Missing file in upload."

OnlyDocxMessage == "Only .docx files are supported."

NotValidDocxMessage == "The uploaded file is not a valid .docx document."

DefaultMessage == "Unable to compare documents."

EmptyMessage == ""

DocxSuffix == <<".", "d", "o", "c", "x">>

UpperCase ==
  <<"A", "B", "C", "D", "E", "F", "G", "H", "I", "J", "K", "L", "M",
    "N", "O", "P", "Q", "R", "S", "T", "U", "V", "W", "X", "Y", "Z">>

LowerCase ==
  <<"a", "b", "c", "d", "e", "f", "g", "h", "i", "j", "k", "l", "m",
    "n", "o", "p", "q", "r", "s", "t", "u", "v", "w", "x", "y", "z">>

\* String.prototype.toLowerCase on a name of ASCII characters
toLowerCase(name) ==
  [i \in DOMAIN name |->
     IF \E k \in DOMAIN UpperCase : UpperCase[k] = name[i]
     THEN LowerCase[CHOOSE k \in DOMAIN UpperCase : UpperCase[k] = name[i]]
     ELSE name[i]]

endsWith(name, suffix) ==
  /\ Len(name) >= Len(suffix)
  /\ SubSeq(name, Len(name) - Len(suffix) + 1, Len(name)) = suffix

\* file.originalFilename?.toLowerCase().endsWith('.docx'), as a condition
extensionValid(file) ==
  /\ file.originalFilename # Null
  /\ endsWith(toLowerCase(file.originalFilename), DocxSuffix)

\* mutant: one of the two tests failing is enough to reject
validateFileEither(file) ==
  IF file = Missing THEN MissingFileMessage
  ELSE IF file.mimetype # AllowedMime \/ ~extensionValid(file)
       THEN OnlyDocxMessage
       ELSE NoError

\* the message of the error validateFile throws, NoError when it returns
validateFile(file) ==
  IF file = Missing THEN MissingFileMessage
  ELSE IF file.mimetype # AllowedMime /\ ~extensionValid(file)
       THEN OnlyDocxMessage
       ELSE NoError

DocumentXml == "word/document.xml"

TRACKED_CHANGE_XML == {DocumentXml, "word/footnotes.xml", "word/endnotes.xml"}

Digits == {"0", "1", "2", "3", "4", "5", "6", "7", "8", "9"}

\* \d+ : one digit or more, nothing else
allDigits(s) ==
  /\ Len(s) >= 1
  /\ \A i \in 1..Len(s) : SubSeq(s, i, i) \in Digits

\* (header\d+|footer\d+)
NumberedStem(stem) ==
  \E word \in {"header", "footer"} :
    /\ Len(stem) > Len(word)
    /\ SubSeq(stem, 1, Len(word)) = word
    /\ allDigits(SubSeq(stem, Len(word) + 1, Len(stem)))

\* (document|footnotes|endnotes|header\d+|footer\d+)
TrackedStem(stem) ==
  \/ stem \in {"document", "footnotes", "endnotes"}
  \/ NumberedStem(stem)

\* /^word\/(document|footnotes|endnotes|header\d+|footer\d+)\.xml$/
\* tested on the name of one entry
TrackedPattern(name) ==
  /\ Len(name) > Len("word/") + Len(".xml")
  /\ SubSeq(name, 1, Len("word/")) = "word/"
  /\ SubSeq(name, Len(name) - Len(".xml") + 1, Len(name)) = ".xml"
  /\ TrackedStem(SubSeq(name, Len("word/") + 1, Len(name) - Len(".xml")))

\* the name of a part or the text of a node, written as one string
RECURSIVE asString(_)
asString(chars) ==
  IF chars = <<>> THEN "" ELSE Head(chars) \o asString(Tail(chars))

\* the message a parser failure carries for one entry of an archive: the
\* message the parser throws with, or the text of the first parsererror
\* element of the document it returns (lines 49-54), 'Unknown error' when
\* that text is empty, trimmed; NoError when the entry parses
parserMessage(file, name) ==
  IF name \in file.unparsable THEN file.parseError
  ELSE IF name \in file.parsererror
       THEN IF file.parsererrorText = <<>> THEN "Unknown error"
            ELSE asString(trim(file.parsererrorText))
       ELSE NoError

\* compareDocxHyperlinks.js 45-60: the message of the error parseXml
\* throws on an entry that does not parse
parseXml(file, fileName) ==
  ParseFailedIn \o fileName \o ": " \o parserMessage(file, fileName)

\* docx.js 33-81: the error thrown (NoError when none) and the entries
\* rewritten in the archive returned.  loadAsync rejects a buffer that is
\* no archive; parseFromString at line 56 is not guarded, so a parser
\* that throws on a tracked entry rejects the conversion with the
\* parser's own message and no archive is returned; a document with a
\* parsererror element is rewritten like any other
acceptTrackedChanges(file) ==
  LET trackedFiles ==
        {name \in file.entries : TrackedPattern(name)} \cup TRACKED_CHANGE_XML
  IN IF file.zip # NoError THEN [error |-> file.zip, rewritten |-> {}]
     ELSE IF DocumentXml \notin trackedFiles
          THEN [error |-> NotValidDocxMessage, rewritten |-> {}]
          ELSE IF trackedFiles \cap file.entries \cap file.unparsable # {}
               THEN [error |-> file.parseError, rewritten |-> {}]
               ELSE [error |-> NoError,
                     rewritten |-> trackedFiles \cap file.entries]

\* the conversion: tracked changes accepted, then the mammoth conversions;
\* value holds the fields of the object the promise is fulfilled with
docxToAcceptedContent(file) ==
  LET cleaned == acceptTrackedChanges(file)
  IN IF cleaned.error # NoError
     THEN [error |-> cleaned.error, rewritten |-> {}, value |-> {}]
     ELSE IF file.mammoth # NoError
          THEN [error |-> file.mammoth, rewritten |-> cleaned.rewritten,
                value |-> {}]
          ELSE [error |-> NoError, rewritten |-> cleaned.rewritten,
                value |-> {"html", "text"}]

\* docx.js 100-103: the conversion, of which the html alone is returned
docxToAcceptedHtml(file) ==
  LET content == docxToAcceptedContent(file)
  IN [content EXCEPT !.value = @ \cap {"html"}]

RELS_DIR == "word/_rels/"

PART_PREFIX == "word/"

\* the line terminators, which '.' of a regular expression does not match
\* (U+2028 and U+2029 are two more; no string of the model holds them)
LineTerminators == {"\n", "\r"}

\* .* : any characters but line terminators
noLineTerminator(s) ==
  \A i \in 1..Len(s) : SubSeq(s, i, i) \notin LineTerminators

\* /^word\/_rels\/.*\.rels$/ tested on the name of one entry
RelsPattern(name) ==
  /\ Len(name) >= Len(RELS_DIR) + Len(".rels")
  /\ SubSeq(name, 1, Len(RELS_DIR)) = RELS_DIR
  /\ SubSeq(name, Len(name) - Len(".rels") + 1, Len(name)) = ".rels"
  /\ noLineTerminator(
       SubSeq(name, Len(RELS_DIR) + 1, Len(name) - Len(".rels")))

\* /^word\/(header\d+|footer\d+)\.xml$/ tested on the name of one entry
HeaderFooterPattern(name) ==
  /\ Len(name) > Len(PART_PREFIX) + Len(".xml")
  /\ SubSeq(name, 1, Len(PART_PREFIX)) = PART_PREFIX
  /\ SubSeq(name, Len(name) - Len(".xml") + 1, Len(name)) = ".xml"
  /\ NumberedStem(SubSeq(name, Len(PART_PREFIX) + 1, Len(name) - Len(".xml")))

\* relPath.replace(RELS_DIR, '').replace(/\.rels$/i, '') on a name that
\* matches RelsPattern
relPartName(relPath) ==
  SubSeq(relPath, Len(RELS_DIR) + 1, Len(relPath) - Len(".rels"))

\* file.name.replace(PART_PREFIX, '') on a name that starts with it
partNameOf(name) == SubSeq(name, Len(PART_PREFIX) + 1, Len(name))

\* line 97: the relationship files of the archive
relationshipFiles(file) == {name \in file.entries : RelsPattern(name)}

\* the keys of the map buildRelationshipMap returns: the parts whose
\* relationships file holds a hyperlink relationship with an Id
relationshipParts(file) ==
  {relPartName(name) : name \in relationshipFiles(file) \cap file.relationships}

\* lines 169-178: the main document and the numbered headers and footers
namedParts(file) ==
  {"document.xml"}
    \cup {partNameOf(name) : name \in {n \in file.entries : HeaderFooterPattern(n)}}

\* lines 180-190: the parts of the relationship map the archive lacks
missingParts(file) ==
  {partName \in relationshipParts(file) \ namedParts(file) :
     PART_PREFIX \o partName \notin file.entries}

\* the entries of a set that do not parse
failing(file, names) ==
  {name \in names : parserMessage(file, name) # NoError}

\* lines 194-196: the parts in the order they are read, as far as the
\* model has it: the main document, then the numbered headers and
\* footers, then the other parts the relationship files name
readFirst(file) == {DocumentXml}

readSecond(file) == {n \in file.entries : HeaderFooterPattern(n)} \ {DocumentXml}

readThird(file) ==
  {PART_PREFIX \o partName : partName \in relationshipParts(file)}
    \ (readFirst(file) \cup readSecond(file))

\* lines 154-201: the errors extractHyperlinks can throw once the file at
\* path is read, none when it returns.  Where several relationship files
\* or parts fail, the first in the archive's order is reported, an order
\* the entries of the model do not have
extractErrors(file, path) ==
  IF file.zip # NoError THEN {OpenFailedAt \o path \o ": " \o file.zip}
  ELSE IF failing(file, relationshipFiles(file)) # {}
  THEN {parseXml(file, name) : name \in failing(file, relationshipFiles(file))}
  ELSE IF DocumentXml \notin file.entries THEN {DocumentXmlNotFound}
  ELSE IF missingParts(file) # {}
  THEN {PART_PREFIX \o partName \o " not found in DOCX" :
          partName \in missingParts(file)}
  ELSE IF failing(file, readFirst(file)) # {}
  THEN {parseXml(file, name) : name \in failing(file, readFirst(file))}
  ELSE IF failing(file, readSecond(file)) # {}
  THEN {parseXml(file, name) : name \in failing(file, readSecond(file))}
  ELSE {parseXml(file, name) : name \in failing(file, readThird(file))}

\* lines 192-203: the hyperlinks of the parts that are read
RECURSIVE linksOfParts(_, _)
linksOfParts(hyperlinks, parts) ==
  IF hyperlinks = <<>> THEN <<>>
  ELSE IF asString(Head(hyperlinks).part) \in parts
       THEN <<Head(hyperlinks)>> \o linksOfParts(Tail(hyperlinks), parts)
       ELSE linksOfParts(Tail(hyperlinks), parts)

\* what extractHyperlinks returns for an archive it throws no error on
extractedLinks(file) ==
  extractHyperlinksFromDocument(
    linksOfParts(file.links, namedParts(file) \cup relationshipParts(file)))

\* file.filepath: the temporary file formidable wrote the upload to
Filepath(f) == "/tmp/" \o f

\* what is at a path now: a file, a directory, or nothing
KindOf(req, f) == IF f \in req.disk THEN req.uploads[f].kind ELSE "absent"

\* the code of the error unlink(path) rejects with, NoError when it removed
\* the file; gone tells whether the removal of a file went through
unlinkError(kind, gone) ==
  IF kind = "absent" THEN "ENOENT"
  ELSE IF kind = "directory" THEN "EISDIR"
       ELSE IF gone THEN NoError ELSE "EPERM"

\* mutant: the error's message is sent as it is
errorTextRaw(message) == message

\* error.message || 'Unable to compare documents.'
errorText(message) == IF message = EmptyMessage THEN DefaultMessage ELSE message

NameLower == <<"a", ".", "d", "o", "c", "x">>

NameUpper == <<"A", ".", "D", "O", "C", "X">>

NameMixed == <<"R", "e", "p", ".", "D", "o", "c", "X">>

NameDoc == <<"a", ".", "d", "o", "c">>

NameDocxInside == <<".", "d", "o", "c", "x", "a">>

PartPXml == "word/p"

PartPRels == "word/_rels/p.rels"

\* an upload: what validateFile looks at, what is at its path, the verdict
\* of JSZip on its bytes, the entries of the archive, those of them that
\* are relationship files with a hyperlink relationship, those on which
\* the XML parser throws and what it throws, those of which it returns a
\* document with a parsererror element and the text of that element, the
\* verdict of mammoth, and the hyperlinks of its parts
GoodFile ==
  [mimetype |-> AllowedMime, originalFilename |-> NameLower,
   kind |-> "file", zip |-> NoError,
   entries |-> {DocumentXml, "word/header1.xml", "word/styles.xml",
                PartPXml, PartPRels},
   relationships |-> {PartPRels},
   unparsable |-> {}, parseError |-> NoError,
   parsererror |-> {}, parsererrorText |-> <<>>,
   mammoth |-> NoError,
   links |-> <<[part |-> PartP, relId |-> RelId, url |-> UrlX,
                anchorText |-> TextL]>>]

\* uploads that differ in what validateFile looks at
NamedFiles ==
  {[GoodFile EXCEPT !.mimetype = m, !.originalFilename = n] :
     m \in {AllowedMime, OtherMime},
     n \in {NameLower, NameUpper, NameMixed, NameDoc, NameDocxInside, Null}}

\* uploads that differ in the archive's entries and in mammoth's verdict
ArchiveFiles ==
  {[GoodFile EXCEPT !.entries = e, !.relationships = {}, !.links = <<>>,
                    !.mammoth = m] :
     e \in {{"word/header1.xml", "word/styles.xml"}, {},
            {DocumentXml, "word/footnotes.xml"},
            {DocumentXml, "word/header2.xml", "word/footer10.xml",
             "word/header.xml", "word/footer1a.xml", "word/headers/header1.xml",
             "docProps/document.xml", "word/document.xml.rels"}},
     m \in {NoError, "mammoth failed"}}

\* uploads that differ in the parts the relationship files name
LinkedFiles ==
  {[GoodFile EXCEPT !.entries = {PartPXml, PartPRels}],
   [GoodFile EXCEPT !.entries = {DocumentXml, PartPRels}, !.links = <<>>],
   [GoodFile EXCEPT !.entries = {DocumentXml, PartPXml, PartPRels},
                    !.relationships = {}],
   [GoodFile EXCEPT !.entries = {DocumentXml, PartPXml}],
   [GoodFile EXCEPT !.entries = {DocumentXml, "word/_rels/a\nb.rels"},
                    !.relationships = {"word/_rels/a\nb.rels"},
                    !.links = <<>>]}

\* uploads that are no archive, or of which an entry does not parse
UnparsableFiles ==
  {[GoodFile EXCEPT !.zip = NotAZip, !.entries = {}, !.relationships = {},
                    !.links = <<>>],
   [GoodFile EXCEPT !.unparsable = {DocumentXml}, !.parseError = ParserMessage],
   [GoodFile EXCEPT !.unparsable = {PartPXml}, !.parseError = ParserMessage],
   [GoodFile EXCEPT !.unparsable = {PartPRels}, !.parseError = ParserMessage],
   [GoodFile EXCEPT !.parsererror = {DocumentXml},
                    !.parsererrorText = <<" ", "b", "a", "d", "\n">>],
   [GoodFile EXCEPT !.parsererror = {PartPXml}]}

\* uploads on which one step fails
FailingFiles ==
  {[GoodFile EXCEPT !.kind = "absent"],
   [GoodFile EXCEPT !.kind = "directory"],
   [GoodFile EXCEPT !.links = <<[part |-> PartP, relId |-> RelId,
                                 url |-> UrlY, anchorText |-> TextL]>>]}

UploadedFiles ==
  NamedFiles \cup ArchiveFiles \cup LinkedFiles \cup UnparsableFiles
    \cup FailingFiles \cup {Missing}

Arrived(handler, method, parseError, diffError, fileA, fileB) ==
  [pc |-> "start", handler |-> handler, method |-> method,
   parseError |-> parseError,
   diffError |-> diffError, uploads |-> [docxA |-> fileA, docxB |-> fileB],
   reqFiles |-> Unset, headers |-> {}, responses |-> <<>>,
   thrown |-> NoError, parsed |-> FALSE,
   reads |-> [f \in Fields |-> "idle"],
   conversions |-> [f \in Fields |->
                      [state |-> "idle", error |-> NoError, rewritten |-> {},
                       value |-> {}]],
   extractions |-> [f \in Fields |-> "idle"],
   values |-> [f \in Fields |-> Pending],
   unlinks |-> [f \in Fields |-> "idle"],
   unlinkErrors |-> [f \in Fields |-> NoError],
   disk |-> {}, warnings |-> {}]

Requests ==
  {Arrived(h, m, NoError, NoError, GoodFile, GoodFile) :
     h \in Handlers, m \in {"GET", "PUT"}}
    \cup {Arrived(h, "POST", e, NoError, GoodFile, GoodFile) :
            h \in Handlers, e \in {EmptyMessage, "maxFileSize exceeded"}}
    \cup {Arrived(h, "POST", NoError, e, GoodFile, GoodFile) :
            h \in Handlers, e \in {EmptyMessage, "diff failed"}}
    \cup {Arrived(h, "POST", NoError, NoError, a, b) :
            h \in Handlers, a \in UploadedFiles, b \in UploadedFiles}

correlationVars ==
  <<files, filePathA, filePathB, linksA, linksB, pc, accountedA, accountedB,
    changedUrl, changedAnchorText, remainingA, remainingB, added, removed,
    matched, results, thrown, invocations>>

HandlerInit ==
  /\ request \in Requests
  /\ files = [docxA |-> Docx(<<>>), docxB |-> Docx(<<>>)]
  /\ filePathA = NoPath
  /\ filePathB = NoPath
  /\ linksA = <<>>
  /\ linksB = <<>>
  /\ pc = "idle"
  /\ accountedA = {}
  /\ accountedB = {}
  /\ changedUrl = <<>>
  /\ changedAnchorText = <<>>
  /\ remainingA = <<>>
  /\ remainingB = <<>>
  /\ added = <<>>
  /\ removed = <<>>
  /\ matched = <<>>
  /\ results = <<>>
  /\ thrown = NoError
  /\ invocations = [i \in Invocations |-> NotInvoked]

Other(f) == IF f = "docxA" THEN "docxB" ELSE "docxA"

\* where the handler stands once one promise of a Promise.all it awaits has
\* settled: the first rejection is thrown, the last fulfilment resumes
Awaited(req, waiting, error, allFulfilled, resumed) ==
  IF req.pc # waiting THEN req
  ELSE IF error # NoError THEN [req EXCEPT !.pc = "catch", !.thrown = error]
       ELSE IF allFulfilled THEN [req EXCEPT !.pc = resumed]
            ELSE req

\* lines 118-122
MethodCheck ==
  /\ request.pc = "start"
  /\ request' =
       IF request.method # "POST"
       THEN [request EXCEPT
               !.headers = @ \cup {<<"Allow", "POST">>},
               !.responses = Append(@, [status |-> 405,
                                        body |-> "Method Not Allowed"]),
               !.pc = "done"]
       ELSE [request EXCEPT !.pc = "parsing"]
  /\ UNCHANGED correlationVars

\* the temporary files formidable leaves at the paths it reports: one per
\* upload, but for an upload whose path holds nothing when it is read
Written(req) ==
  {f \in Fields :
     IF req.uploads[f] = Missing THEN FALSE
     ELSE req.uploads[f].kind # "absent"}

\* lines 131-141: formidable parses the form and writes the uploads to
\* temporary files; what it leaves on disk when it fails is its own matter,
\* any of the files may be there
ParseForm ==
  /\ request.pc = "parsing"
  /\ \E written \in SUBSET Written(request) :
       request' =
         IF request.parseError # NoError
         THEN [request EXCEPT !.pc = "catch", !.thrown = request.parseError,
                              !.disk = written]
         ELSE [request EXCEPT !.pc = "validate", !.parsed = TRUE,
                              !.reqFiles = request.uploads,
                              !.disk = Written(request)]
  /\ UNCHANGED correlationVars

\* lines 143-152: both uploads are validated, then both reads are started
Validate ==
  /\ request.pc = "validate"
  /\ LET original == request.reqFiles.docxA
         revised == request.reqFiles.docxB
     IN request' =
          IF validateFile(original) # NoError
          THEN [request EXCEPT !.pc = "catch",
                               !.thrown = validateFile(original)]
          ELSE IF validateFile(revised) # NoError
               THEN [request EXCEPT !.pc = "catch",
                                    !.thrown = validateFile(revised)]
               ELSE [request EXCEPT
                       !.pc = "reading",
                       !.reads = [f \in DOMAIN @ |-> "pending"]]
  /\ UNCHANGED correlationVars

\* lines 190-193: the import of one fsReadFile resolves and readFile opens
\* the file; a path that holds no file rejects the read
ReadOpen(f) ==
  /\ request.reads[f] = "pending"
  /\ LET error == readFileError(KindOf(request, f), Filepath(f))
     IN request' =
          IF error = NoError THEN [request EXCEPT !.reads[f] = "open"]
          ELSE Awaited([request EXCEPT !.reads[f] = "rejected"],
                       "reading", error, FALSE, "converting")
  /\ UNCHANGED correlationVars

\* lines 149-157: one fsReadFile is fulfilled with the buffer of the file it
\* holds open, whatever has happened to the path since
ReadSettle(f) ==
  /\ request.reads[f] = "open"
  /\ LET settled == [request EXCEPT !.reads[f] = "fulfilled"]
     IN request' =
          Awaited([settled EXCEPT
                     !.conversions =
                        IF settled.pc = "reading"
                              /\ settled.reads[Other(f)] = "fulfilled"
                        THEN [g \in DOMAIN @ |-> [@[g] EXCEPT !.state = "pending"]]
                        ELSE @],
                  "reading", NoError,
                  settled.reads[Other(f)] = "fulfilled", "converting")
  /\ UNCHANGED correlationVars

\* lines 154-157 and docx.js 83-98: one docxToAcceptedContent settles; in
\* the handler of the HTML alone (its lines 65-68) one docxToAcceptedHtml
ConvertSettle(f) ==
  /\ request.conversions[f].state = "pending"
  /\ LET outcome == IF request.handler = HtmlHandler
                    THEN docxToAcceptedHtml(request.uploads[f])
                    ELSE docxToAcceptedContent(request.uploads[f])
         settled == [request EXCEPT
                       !.conversions[f] =
                          [state |-> IF outcome.error = NoError
                                     THEN "fulfilled" ELSE "rejected",
                           error |-> outcome.error,
                           rewritten |-> outcome.rewritten,
                           value |-> outcome.value]]
     IN request' =
          Awaited(settled, "converting", outcome.error,
                  settled.conversions[Other(f)].state = "fulfilled", "diffing")
  /\ UNCHANGED correlationVars

\* lines 159-170: the HTML diff, then compareDocxHyperlinks starts both
\* extractions (compareDocxHyperlinks.js 329-332)
Diff ==
  /\ request.pc = "diffing"
  /\ request.handler = CompareHandler
  /\ request' =
       IF request.diffError # NoError
       THEN [request EXCEPT !.pc = "catch", !.thrown = request.diffError]
       ELSE [request EXCEPT
               !.pc = "extracting",
               !.extractions = [f \in DOMAIN @ |-> "readFile"]]
  /\ UNCHANGED correlationVars

\* src/unnamed/part_001 lines 70-76: the HTML diff, after which the
\* handler of the HTML alone responds
DiffHtml ==
  /\ request.pc = "diffing"
  /\ request.handler = HtmlHandler
  /\ request' =
       IF request.diffError # NoError
       THEN [request EXCEPT !.pc = "catch", !.thrown = request.diffError]
       ELSE [request EXCEPT !.pc = "respond"]
  /\ UNCHANGED correlationVars

\* compareDocxHyperlinks.js 146-152: the readFile of one extraction opens
\* the file; a path that holds no file rejects the extraction
ExtractOpen(f) ==
  /\ request.extractions[f] = "readFile"
  /\ LET error == readFileError(KindOf(request, f), Filepath(f))
     IN request' =
          IF error = NoError THEN [request EXCEPT !.extractions[f] = "reading"]
          ELSE Awaited([request EXCEPT !.extractions[f] = "rejected"],
                       "extracting",
                       "Failed to read file at " \o Filepath(f) \o ": "
                         \o error,
                       FALSE, "respond")
  /\ UNCHANGED correlationVars

\* compareDocxHyperlinks.js 149: the readFile of one extraction is fulfilled
\* with the buffer of the file it holds open
ExtractRead(f) ==
  /\ request.extractions[f] = "reading"
  /\ request' = [request EXCEPT !.extractions[f] = "parts"]
  /\ UNCHANGED correlationVars

\* compareDocxHyperlinks.js 154-204: one extraction settles, rejected
\* when the buffer is no archive, when the archive lacks word/document.xml
\* or a part a relationships file names, or when an entry does not parse
ExtractSettle(f) ==
  /\ request.extractions[f] = "parts"
  /\ LET errors == extractErrors(request.uploads[f], Filepath(f))
     IN \E error \in (IF errors = {} THEN {NoError} ELSE errors) :
          LET settled == [request EXCEPT
                            !.extractions[f] = IF error = NoError
                                               THEN "fulfilled" ELSE "rejected",
                            !.values[f] =
                               IF error = NoError
                               THEN extractedLinks(request.uploads[f])
                               ELSE @]
          IN request' =
               Awaited(settled, "extracting", error,
                       settled.extractions[Other(f)] = "fulfilled", "respond")
  /\ UNCHANGED correlationVars

\* lines 170-181 and compareDocxHyperlinks.js 334-354
Respond ==
  /\ request.pc = "respond"
  /\ request.handler = CompareHandler
  /\ request' =
       [request EXCEPT
          !.responses =
             Append(@, [status |-> 200,
                        body |-> [originalHtml |-> "docxA",
                                  revisedHtml |-> "docxB",
                                  diffHtml |-> "diff",
                                  changes |-> "changes",
                                  hyperlinkSummary |->
                                    correlate(request.values.docxA,
                                              request.values.docxB)]]),
          !.pc = "finally"]
  /\ UNCHANGED correlationVars

\* src/unnamed/part_001 lines 78-82
RespondHtml ==
  /\ request.pc = "respond"
  /\ request.handler = HtmlHandler
  /\ request' =
       [request EXCEPT
          !.responses =
             Append(@, [status |-> 200,
                        body |-> [originalHtml |-> "docxA",
                                  revisedHtml |-> "docxB",
                                  diffHtml |-> "diff"]]),
          !.pc = "finally"]
  /\ UNCHANGED correlationVars

\* lines 182-184
Catch ==
  /\ request.pc = "catch"
  /\ request' =
       [request EXCEPT
          !.responses = Append(@, [status |-> 400,
                                   body |-> errorText(request.thrown)]),
          !.pc = "finally"]
  /\ UNCHANGED correlationVars

\* lines 185-187, 206-216: one removal is started per file of req.files
Cleanup ==
  /\ request.pc = "finally"
  /\ request' =
       [request EXCEPT
          !.unlinks = [f \in DOMAIN @ |->
                         IF request.reqFiles # Unset
                              /\ request.reqFiles[f] # Missing
                         THEN "pending" ELSE "idle"],
          !.pc = "cleaning"]
  /\ UNCHANGED correlationVars

\* lines 196-198: the import of one fsUnlink resolves and unlink(path) is
\* carried out at the file system; its promise is not settled yet; gone
\* tells whether the removal of a file went through
Unlink(f, gone) ==
  /\ request.unlinks[f] = "pending"
  /\ LET code == unlinkError(KindOf(request, f), gone)
     IN request' =
          [request EXCEPT
             !.unlinks[f] = "unlinked",
             !.unlinkErrors[f] = code,
             !.disk = IF code = NoError THEN @ \ {f} ELSE @]
  /\ UNCHANGED correlationVars

\* lines 198-204: the promise of one unlink settles in a later turn; an
\* error other than ENOENT is logged and swallowed
UnlinkSettle(f) ==
  /\ request.unlinks[f] = "unlinked"
  /\ request' =
       [request EXCEPT
          !.unlinks[f] = "settled",
          !.warnings = IF request.unlinkErrors[f] \in {NoError, "ENOENT"}
                       THEN @ ELSE @ \cup {f}]
  /\ UNCHANGED correlationVars

\* lines 215, 186-188: every removal has settled, the handler completes
Complete ==
  /\ request.pc = "cleaning"
  /\ \A f \in DOMAIN request.unlinks :
       request.unlinks[f] \in {"idle", "settled"}
  /\ request' = [request EXCEPT !.pc = "done"]
  /\ UNCHANGED correlationVars

HandlerNext ==
  \/ MethodCheck
  \/ ParseForm
  \/ Validate
  \/ \E f \in Fields : ReadOpen(f)
  \/ \E f \in Fields : ReadSettle(f)
  \/ \E f \in Fields : ConvertSettle(f)
  \/ Diff
  \/ DiffHtml
  \/ \E f \in Fields : ExtractOpen(f)
  \/ \E f \in Fields : ExtractRead(f)
  \/ \E f \in Fields : ExtractSettle(f)
  \/ Respond
  \/ RespondHtml
  \/ Catch
  \/ Cleanup
  \/ \E f \in Fields, gone \in BOOLEAN : Unlink(f, gone)
  \/ \E f \in Fields : UnlinkSettle(f)
  \/ Complete

HandlerSpec == HandlerInit /\ [][HandlerNext]_vars

----------------------------------------------------------------------------
(* Vocabulary of the claims *)

Range(seq) == {seq[i] : i \in DOMAIN seq}

Befores(pairs) == {pairs[i].before : i \in DOMAIN pairs}

Afters(pairs) == {pairs[i].after : i \in DOMAIN pairs}

Occurs(seq, link) == Cardinality({i \in DOMAIN seq : seq[i] = link})

OccursBefore(pairs, link) ==
  Cardinality({i \in DOMAIN pairs : pairs[i].before = link})

OccursAfter(pairs, link) ==
  Cardinality({i \in DOMAIN pairs : pairs[i].after = link})

SameContent(l, m) ==
  /\ l.part = m.part
  /\ l.relId = m.relId
  /\ l.url = m.url
  /\ l.anchorText = m.anchorText

SameUrl(l, m) == normalizeUrl(l.url) = normalizeUrl(m.url)

SameText(l, m) == normalizeText(l.anchorText) = normalizeText(m.anchorText)

HasDuplicates(links) ==
  \E i, j \in DOMAIN links : i < j /\ SameContent(links[i], links[j])

NoBuckets ==
  /\ added = <<>>
  /\ removed = <<>>
  /\ changedUrl = <<>>
  /\ changedAnchorText = <<>>

----------------------------------------------------------------------------
(* C1: when the correlation returns, every before link is counted exactly  *)
(* once among the true matches, removed, the before side of changedUrl and *)
(* the before side of changedAnchorText; every after link exactly once     *)
(* among the true matches, added and the after sides; and                  *)
(* |added| + |removed| + 2|changedUrl| + 2|changedAnchorText|              *)
(*   = |before| + |after| - 2 * (number of true matches).                  *)
C1_EveryLinkExactlyOnce ==
  pc = "returned" =>
    /\ \A i \in DOMAIN linksA :
         Occurs(removed, linksA[i]) + OccursBefore(changedUrl, linksA[i])
           + OccursBefore(changedAnchorText, linksA[i])
           + OccursBefore(matched, linksA[i]) = 1
    /\ \A i \in DOMAIN linksB :
         Occurs(added, linksB[i]) + OccursAfter(changedUrl, linksB[i])
           + OccursAfter(changedAnchorText, linksB[i])
           + OccursAfter(matched, linksB[i]) = 1
    /\ Len(added) + Len(removed) + 2 * Len(changedUrl)
         + 2 * Len(changedAnchorText)
         = Len(linksA) + Len(linksB) - 2 * Len(matched)

\* a call returned on a before list with identical links, one matched and
\* one removed
C1_Witness ==
  /\ pc = "returned"
  /\ HasDuplicates(linksA)
  /\ matched # <<>>
  /\ removed # <<>>

(* C2: identical before and after lists give four empty buckets.           *)
C2_IdenticalListsNoChange ==
  (pc = "returned" /\ linksA = linksB) => NoBuckets

\* identical lists of three links, two of them with the same content
C2_Witness ==
  /\ pc = "returned"
  /\ linksA = linksB
  /\ Len(linksA) = 3
  /\ HasDuplicates(linksA)
  /\ \E i, j \in DOMAIN linksA : ~SameContent(linksA[i], linksA[j])
  /\ Len(matched) = 3

(* C3: every changedUrl pair has equal normalized anchor texts and         *)
(* different normalized URLs; one before link and one after link with the  *)
(* same part and anchor text and different URLs give exactly that one      *)
(* changedUrl pair and nothing else.                                       *)
C3_ChangedUrlSameTextOtherUrl ==
  /\ \A i \in DOMAIN changedUrl :
       /\ SameText(changedUrl[i].before, changedUrl[i].after)
       /\ ~SameUrl(changedUrl[i].before, changedUrl[i].after)
  /\ (/\ pc = "returned"
      /\ Len(linksA) = 1
      /\ Len(linksB) = 1
      /\ linksA[1].part = linksB[1].part
      /\ SameText(linksA[1], linksB[1])
      /\ ~SameUrl(linksA[1], linksB[1]))
     => /\ changedUrl = <<[before |-> linksA[1], after |-> linksB[1]]>>
        /\ added = <<>>
        /\ removed = <<>>
        /\ changedAnchorText = <<>>

(* C4: every changedAnchorText pair has equal normalized URLs and          *)
(* different normalized anchor texts; one before link and one after link   *)
(* with the same part and URL and different anchor texts give exactly one  *)
(* changedAnchorText pair and nothing else.                                *)
C4_ChangedTextSameUrlOtherText ==
  /\ \A i \in DOMAIN changedAnchorText :
       /\ SameUrl(changedAnchorText[i].before, changedAnchorText[i].after)
       /\ ~SameText(changedAnchorText[i].before, changedAnchorText[i].after)
  /\ (/\ pc = "returned"
      /\ Len(linksA) = 1
      /\ Len(linksB) = 1
      /\ linksA[1].part = linksB[1].part
      /\ SameUrl(linksA[1], linksB[1])
      /\ ~SameText(linksA[1], linksB[1]))
     => /\ changedAnchorText = <<[before |-> linksA[1], after |-> linksB[1]]>>
        /\ added = <<>>
        /\ removed = <<>>
        /\ changedUrl = <<>>

(* C5: links are never matched across parts: every changedUrl pair, every  *)
(* changedAnchorText pair and every true match joins two links of the same *)
(* part.                                                                   *)
C5_NeverAcrossParts ==
  \A pairs \in {changedUrl, changedAnchorText, matched} :
    \A i \in DOMAIN pairs : pairs[i].before.part = pairs[i].after.part

(* C6: swapping the two inputs swaps the buckets: the links added by one  *)
(* call are the links removed by the call with the arguments exchanged,    *)
(* and the links on the before side of changedUrl (of changedAnchorText)   *)
(* of one call are the links on its after side in the other.               *)
C6_SwapSwapsBuckets ==
  \A args \in DOMAIN results :
    LET swapped == <<args[2], args[1]>>
    IN swapped \in DOMAIN results =>
         /\ Range(results[args].added) = Range(results[swapped].removed)
         /\ Range(results[args].removed) = Range(results[swapped].added)
         /\ Befores(results[args].changedUrl)
              = Afters(results[swapped].changedUrl)
         /\ Afters(results[args].changedUrl)
              = Befores(results[swapped].changedUrl)
         /\ Befores(results[args].changedAnchorText)
              = Afters(results[swapped].changedAnchorText)
         /\ Afters(results[args].changedAnchorText)
              = Befores(results[swapped].changedAnchorText)

\* both argument orders were called on files with identical links; the
\* first order gave a URL change and a removal
C6_Witness ==
  /\ DOMAIN results = {<<"docxA", "docxB">>, <<"docxB", "docxA">>}
  /\ HasDuplicates(files.docxA.links)
  /\ results[<<"docxA", "docxB">>].changedUrl # <<>>
  /\ results[<<"docxA", "docxB">>].removed # <<>>
  /\ results[<<"docxB", "docxA">>].removed = <<>>

(* C7: before links with URLs x and y and after links with URLs x and z    *)
(* (x, y, z distinct, one part, one anchor text), in any order of either   *)
(* list: the two x links are a true match and the result is exactly the    *)
(* changedUrl pair y -> z.                                                 *)
C7_ExactMatchBeforeUrlChange ==
  (pc = "returned" /\ Len(linksA) = 2 /\ Len(linksB) = 2) =>
    \A i, j \in 1..2 :
      LET ax == linksA[i]
          ay == linksA[3 - i]
          bx == linksB[j]
          bz == linksB[3 - j]
      IN (/\ \A l \in {ay, bx, bz} : l.part = ax.part /\ SameText(l, ax)
          /\ SameUrl(ax, bx)
          /\ ~SameUrl(ax, ay)
          /\ ~SameUrl(ax, bz)
          /\ ~SameUrl(ay, bz))
         => /\ matched = <<[before |-> ax, after |-> bx]>>
            /\ changedUrl = <<[before |-> ay, after |-> bz]>>
            /\ added = <<>>
            /\ removed = <<>>
            /\ changedAnchorText = <<>>

\* the x links stand last in before and first in after
C7_Witness ==
  /\ pc = "returned"
  /\ Len(linksA) = 2
  /\ Len(linksB) = 2
  /\ \A l \in Range(linksA) \cup Range(linksB) :
       l.part = PartP /\ l.anchorText = TextL
  /\ linksA[1].url = UrlY
  /\ linksA[2].url = UrlX
  /\ linksB[1].url = UrlX
  /\ linksB[2].url = UrlZ
  /\ changedUrl = <<[before |-> linksA[1], after |-> linksB[2]]>>

(* C8: with an empty before list, added is the after list in input order   *)
(* and the other buckets are empty; with an empty after list, removed is   *)
(* the before list in input order and the others are empty; in general     *)
(* removed holds, in input order, the before links that no pass consumed   *)
(* (as a true match or in a pair), and added likewise the after links.     *)
C8_AddedRemovedAreTheUnconsumed ==
  pc = "returned" =>
    LET consumedA == Befores(matched) \cup Befores(changedUrl)
                       \cup Befores(changedAnchorText)
        consumedB == Afters(matched) \cup Afters(changedUrl)
                       \cup Afters(changedAnchorText)
        freeA(link) == link \notin consumedA
        freeB(link) == link \notin consumedB
    IN /\ removed = SelectSeq(linksA, freeA)
       /\ added = SelectSeq(linksB, freeB)
       /\ linksA = <<>> =>
            /\ added = linksB
            /\ removed = <<>>
            /\ changedUrl = <<>>
            /\ changedAnchorText = <<>>
       /\ linksB = <<>> =>
            /\ removed = linksA
            /\ added = <<>>
            /\ changedUrl = <<>>
            /\ changedAnchorText = <<>>

\* an empty before list against three after links that are not all alike
C8_Witness ==
  /\ pc = "returned"
  /\ linksA = <<>>
  /\ Len(linksB) = 3
  /\ ~SameContent(linksB[1], linksB[2])
  /\ added = linksB

(* C9: a call returns what the first call on the same ordered inputs       *)
(* returned: the same pairs and the same order of the entries in every     *)
(* bucket.                                                                 *)
C9_SameInputsSameResult ==
  (pc = "returned" /\ <<filePathA, filePathB>> \in DOMAIN results) =>
    LET first == results[<<filePathA, filePathB>>]
    IN /\ added = first.added
       /\ removed = first.removed
       /\ changedUrl = first.changedUrl
       /\ changedAnchorText = first.changedAnchorText

\* a call repeated on the same inputs is about to return two URL changes
C9_Witness ==
  /\ pc = "classify"
  /\ <<filePathA, filePathB>> \in DOMAIN results
  /\ Len(changedUrl) = 2
  /\ changedUrl = results[<<filePathA, filePathB>>].changedUrl

(* C10: a call leaves its inputs as extraction returned them (the same     *)
(* links in the same order with the same part, relId, url and anchorText)  *)
(* and starts from working state of its own: at its first statement the    *)
(* consumed sets and the result arrays are empty, whatever the calls       *)
(* before it left.                                                         *)
C10_InputsKeptStateFresh ==
  /\ pc \in {"pass1", "filter", "pass2", "classify", "returned"} =>
       /\ linksA = extractHyperlinks(filePathA).links
       /\ linksB = extractHyperlinks(filePathB).links
  /\ pc = "pass1" =>
       /\ accountedA = {}
       /\ accountedB = {}
       /\ changedUrl = <<>>
       /\ changedAnchorText = <<>>
       /\ remainingA = <<>>
       /\ remainingB = <<>>
       /\ added = <<>>
       /\ removed = <<>>

\* a second call stands at its first statement after a call that filled
\* every bucket
C10_Witness ==
  /\ pc = "pass1"
  /\ \E args \in DOMAIN results :
       /\ results[args].changedUrl # <<>>
       /\ results[args].added # <<>>
  /\ linksA # <<>>

----------------------------------------------------------------------------
InCall == pc \in {"pass1", "filter", "pass2", "classify"}

AllLinks == Range(linksA) \cup Range(linksB)

(* C11: the correlation never raises on links whose url may be null and    *)
(* whose anchor text may be empty or absent: .replace is only ever called  *)
(* on a string, the call returns buckets made of the input links, and a    *)
(* null or absent field counts as the empty string (a lone before link     *)
(* and a lone after link of one part whose urls and anchor texts are null  *)
(* or empty are a true match).                                             *)
C11_TotalOnNullAndEmpty ==
  /\ \A l \in AllLinks : textOrEmpty(l.anchorText) # Null
  /\ pc = "returned" =>
       /\ Range(added) \subseteq Range(linksB)
       /\ Range(removed) \subseteq Range(linksA)
       /\ Befores(changedUrl) \cup Befores(changedAnchorText)
            \subseteq Range(linksA)
       /\ Afters(changedUrl) \cup Afters(changedAnchorText)
            \subseteq Range(linksB)
  /\ (/\ pc = "returned"
      /\ Len(linksA) = 1
      /\ Len(linksB) = 1
      /\ linksA[1].part = linksB[1].part
      /\ \A l \in AllLinks : l.url \in {Null, <<>>}
      /\ \A l \in AllLinks : l.anchorText \in {Null, <<>>})
     => NoBuckets /\ Len(matched) = 1

\* a link with null url and absent anchor text against one with both empty
C11_Witness ==
  /\ pc = "returned"
  /\ Len(linksA) = 1
  /\ Len(linksB) = 1
  /\ linksA[1].url = Null
  /\ linksA[1].anchorText = Null
  /\ linksB[1].url = <<>>
  /\ linksB[1].anchorText = <<>>
  /\ Len(matched) = 1

(* C12: a null url and an empty url are the same destination: a before     *)
(* link and an after link of one part with equal anchor texts, one url     *)
(* null and the other empty, are a true match and appear in no bucket;     *)
(* with different anchor texts they fall in one group of the second pass   *)
(* and are reported as one changedAnchorText pair.                         *)
C12_NullUrlEqualsEmptyUrl ==
  (/\ pc = "returned"
   /\ Len(linksA) = 1
   /\ Len(linksB) = 1
   /\ linksA[1].part = linksB[1].part
   /\ {linksA[1].url, linksB[1].url} = {Null, <<>>})
  => /\ urlKey(linksA[1]) = urlKey(linksB[1])
     /\ SameText(linksA[1], linksB[1]) =>
          /\ NoBuckets
          /\ matched = <<[before |-> linksA[1], after |-> linksB[1]]>>
     /\ ~SameText(linksA[1], linksB[1]) =>
          /\ changedAnchorText = <<[before |-> linksA[1], after |-> linksB[1]]>>
          /\ added = <<>>
          /\ removed = <<>>
          /\ changedUrl = <<>>

\* an empty url before, a null url after, anchor texts that differ
C12_Witness ==
  /\ pc = "returned"
  /\ Len(linksA) = 1
  /\ Len(linksB) = 1
  /\ linksA[1].url = <<>>
  /\ linksB[1].url = Null
  /\ ~SameText(linksA[1], linksB[1])
  /\ Len(changedAnchorText) = 1

(* C13: if no before link has the part of any after link, changedUrl and   *)
(* changedAnchorText are empty, removed is the whole before list and added *)
(* the whole after list.                                                   *)
C13_DisjointPartsAllAddedRemoved ==
  (/\ pc = "returned"
   /\ \A l \in Range(linksA), m \in Range(linksB) : l.part # m.part)
  => /\ changedUrl = <<>>
     /\ changedAnchorText = <<>>
     /\ removed = linksA
     /\ added = linksB

Triple(l) == <<l.part, normalizeText(l.anchorText), normalizeUrl(l.url)>>

CountOf(links, t) == Cardinality({i \in DOMAIN links : Triple(links[i]) = t})

RECURSIVE SumOver(_, _, _)
SumOver(S, a, b) ==
  IF S = {} THEN 0
  ELSE LET t == CHOOSE x \in S : TRUE
           least == IF CountOf(a, t) <= CountOf(b, t)
                    THEN CountOf(a, t) ELSE CountOf(b, t)
       IN least + SumOver(S \ {t}, a, b)

Group(l) == <<l.part, normalizeText(l.anchorText)>>

GroupCount(links, g) == Cardinality({i \in DOMAIN links : Group(links[i]) = g})

Smaller(a, b) == IF a <= b THEN a ELSE b

\* the URL changes the group g owes: the smaller side of the group less
\* its true matches, the latter counted per (part, anchor text, URL) triple
RECURSIVE ChangedUrlOwed(_, _, _)
ChangedUrlOwed(G, a, b) ==
  IF G = {} THEN 0
  ELSE LET g == CHOOSE x \in G : TRUE
           triples == {t \in {Triple(l) : l \in Range(a) \cup Range(b)} :
                         <<t[1], t[2]>> = g}
       IN Smaller(GroupCount(a, g), GroupCount(b, g))
            - SumOver(triples, a, b)
            + ChangedUrlOwed(G \ {g}, a, b)

\* what a call on these two paths returns when no other call is in flight
RunAlone(pathA, pathB) ==
  correlate(extractHyperlinks(pathA).links, extractHyperlinks(pathB).links)

\* the hyperlinks the file at a path holds, as objects
HeldBy(path) == Range(extractHyperlinksFromDocument(files[path].links))

\* the links a returned result names on its before side and on its after
\* side
BeforeSide(result) ==
  Range(result.removed) \cup Befores(result.changedUrl)
    \cup Befores(result.changedAnchorText)

AfterSide(result) ==
  Range(result.added) \cup Afters(result.changedUrl)
    \cup Afters(result.changedAnchorText)

(* C14: under every interleaving of the extraction steps of the calls in   *)
(* flight, and whichever of its two extractions is fulfilled first, a      *)
(* call returns what it returns when run alone: the links of its first     *)
(* path are the before links and those of its second path the after links, *)
(* in the numbers the two files of the call owe; a call that throws has    *)
(* no result and throws the error of an extraction of its own that has     *)
(* been rejected.                                                          *)
C14_ConcurrentCallsIndependent ==
  \A i \in Invocations :
    /\ invocations[i].pc = "returned" =>
         LET result == invocations[i].result
             before == files[invocations[i].filePathA].links
             after == files[invocations[i].filePathB].links
         IN /\ extractHyperlinks(invocations[i].filePathA).error = NoError
            /\ extractHyperlinks(invocations[i].filePathB).error = NoError
            /\ result
                 = RunAlone(invocations[i].filePathA, invocations[i].filePathB)
            /\ BeforeSide(result) \subseteq HeldBy(invocations[i].filePathA)
            /\ AfterSide(result) \subseteq HeldBy(invocations[i].filePathB)
            /\ Len(result.changedUrl)
                 = ChangedUrlOwed({Group(l) : l \in Range(before) \cup Range(after)},
                                  before, after)
            /\ Len(before) - Len(result.removed)
                 = Len(after) - Len(result.added)
            /\ Len(before) - Len(result.removed)
                 >= Len(result.changedUrl) + Len(result.changedAnchorText)
                      + SumOver({Triple(l) : l \in Range(before) \cup Range(after)},
                                before, after)
    /\ invocations[i].pc = "thrown" =>
         /\ invocations[i].result = Pending
         /\ invocations[i].thrown # NoError
         /\ invocations[i].thrown
              \in {files[invocations[i].filePathA].extract,
                   files[invocations[i].filePathB].extract}
         /\ \E k \in 1..2 :
              /\ Stages[invocations[i].stage[k]] = "rejected"
              /\ files[ExtractedPath(i, k)].extract = invocations[i].thrown
    /\ \A k \in 1..2 :
         Stages[invocations[i].stage[k]] = "fulfilled" =>
           invocations[i].values[k]
             = extractHyperlinks(ExtractedPath(i, k)).links

C14_Witness ==
  /\ invocations["first"].pc = "returned"
  /\ invocations["second"].pc = "returned"
  /\ invocations["first"].order = <<2, 1>>
  /\ invocations["second"].order = <<1, 2>>
  /\ invocations["first"].filePathA = invocations["second"].filePathB
  /\ Len(invocations["first"].result.removed) = 2
  /\ Len(invocations["second"].result.added) = 2

(* C15: the anchor-text sub-step of the second pass never consumes a link:  *)
(* after the first pass no unconsumed before link and unconsumed after     *)
(* link have the same part and the same normalized anchor text, so every   *)
(* true match is one of the first pass and every link the second pass      *)
(* consumes is in a changedAnchorText pair.                                *)
C15_SecondPassTextStepIdle ==
  /\ pc = "pass2" =>
       \A i \in DOMAIN remainingA, j \in DOMAIN remainingB :
         ~(/\ remainingA[i].part = remainingB[j].part
           /\ SameText(remainingA[i], remainingB[j]))
  /\ pc \in {"classify", "returned"} =>
       /\ Len(matched) + Len(changedUrl) + Len(remainingA) = Len(linksA)
       /\ Cardinality(accountedA)
            = Len(linksA) - Len(remainingA) + Len(changedAnchorText)
       /\ Cardinality(accountedB)
            = Len(linksB) - Len(remainingB) + Len(changedAnchorText)

SameGroup(l, m) == l.part = m.part /\ SameText(l, m)

SameUrlGroup(l, m) == l.part = m.part /\ SameUrl(l, m)

InGroupOf(links, l) ==
  LET inGroup(m) == SameGroup(l, m) IN SelectSeq(links, inGroup)

InUrlGroupOf(links, l) ==
  LET inGroup(m) == SameUrlGroup(l, m) IN SelectSeq(links, inGroup)

Without(links, S) ==
  LET free(m) == m \notin S IN SelectSeq(links, free)

Shorter(a, b) == IF Len(a) <= Len(b) THEN Len(a) ELSE Len(b)

Zip(a, b) == [i \in 1..Shorter(a, b) |-> [before |-> a[i], after |-> b[i]]]

(* C16: in each (part, anchor text) group of the first pass, after the     *)
(* matching of equal URLs, the i-th still unmatched before link is paired  *)
(* in changedUrl with the i-th still unmatched after link, up to the       *)
(* shorter side; the links beyond it stay unconsumed.                      *)
C16_FirstPassPairsByPosition ==
  pc = "filter" =>
    \A l \in AllLinks :
      LET restA == Without(InGroupOf(linksA, l), Befores(matched))
          restB == Without(InGroupOf(linksB, l), Afters(matched))
          n == Shorter(restA, restB)
          ofGroup(pair) == SameGroup(l, pair.before)
      IN /\ SelectSeq(changedUrl, ofGroup) = Zip(restA, restB)
         /\ \A i \in DOMAIN restA : i > n => restA[i] \notin accountedA
         /\ \A i \in DOMAIN restB : i > n => restB[i] \notin accountedB

(* C17: the second pass sees only the links the first pass left, groups    *)
(* them by part and normalized URL, and in each group pairs the i-th       *)
(* remaining before link with the i-th remaining after link, for exactly   *)
(* the shorter side's count of changedAnchorText pairs; the links beyond   *)
(* it end in removed or added.                                             *)
C17_SecondPassPairsByPosition ==
  /\ pc = "pass2" =>
       /\ remainingA
            = Without(linksA, Befores(matched) \cup Befores(changedUrl))
       /\ remainingB
            = Without(linksB, Afters(matched) \cup Afters(changedUrl))
  /\ pc \in {"classify", "returned"} =>
       \A l \in AllLinks :
         LET restA == InUrlGroupOf(remainingA, l)
             restB == InUrlGroupOf(remainingB, l)
             n == Shorter(restA, restB)
             ofGroup(pair) == SameUrlGroup(l, pair.before)
         IN /\ SelectSeq(changedAnchorText, ofGroup) = Zip(restA, restB)
            /\ pc = "returned" =>
                 /\ \A i \in DOMAIN restA :
                      i > n => Occurs(removed, restA[i]) = 1
                 /\ \A i \in DOMAIN restB :
                      i > n => Occurs(added, restB[i]) = 1

\* the iteration order of allKeys in the first pass
anchorOrder(lA, lB) ==
  dedupe(buildMap(lA, anchorKeys(lA)).keys \o buildMap(lB, anchorKeys(lB)).keys)

\* the iteration order of allKeys in the second pass
urlOrder(lA, lB) ==
  dedupe(buildMap(lA, urlKeys(lA)).keys \o buildMap(lB, urlKeys(lB)).keys)

RECURSIVE Orders(_)
Orders(keys) ==
  IF keys = <<>> THEN {<<>>}
  ELSE UNION {{<<keys[i]>> \o q : q \in Orders(selectAt(keys, 1, {i}))} :
                i \in DOMAIN keys}

FreshState ==
  [usedB |-> {}, matchedA |-> {}, accountedA |-> {}, accountedB |-> {},
   changed |-> <<>>, matched |-> <<>>]

\* the first pass with its groups taken in the given order
anchorPassIn(lA, lB, order) ==
  anchorGroups(buildMap(lA, anchorKeys(lA)), buildMap(lB, anchorKeys(lB)),
               order, FreshState)

\* the second pass with its groups taken in the given order
urlPassIn(lA, lB, s, order) ==
  urlGroups(buildMap(lA, urlKeys(lA)), buildMap(lB, urlKeys(lB)), order,
            [s EXCEPT !.usedB = {}, !.matchedA = {}, !.changed = <<>>])

(* C18: whatever the order in which the groups of the first pass and of    *)
(* the second pass are taken, the sets of links in added and removed and   *)
(* the sets of pairs in changedUrl and changedAnchorText are the ones      *)
(* returned, and the keys iterated are the keys of both sides.             *)
C18_GroupOrderInsignificant ==
  pc = "returned" =>
    LET keys1 == anchorOrder(linksA, linksB)
        keys2 == urlOrder(remainingA, remainingB)
    IN /\ Range(keys1)
            = Range(anchorKeys(linksA)) \cup Range(anchorKeys(linksB))
       /\ Range(keys2)
            = Range(urlKeys(remainingA)) \cup Range(urlKeys(remainingB))
       /\ \A q1 \in Orders(keys1) :
            LET s1 == anchorPassIn(linksA, linksB, q1)
                restA == filterNotIn(linksA, s1.accountedA)
                restB == filterNotIn(linksB, s1.accountedB)
            IN /\ Range(s1.changed) = Range(changedUrl)
               /\ \A q2 \in Orders(urlOrder(restA, restB)) :
                    LET s2 == urlPassIn(restA, restB, s1, q2)
                    IN /\ Range(s2.changed) = Range(changedAnchorText)
                       /\ Range(filterNotIn(linksB, s2.accountedB))
                            = Range(added)
                       /\ Range(filterNotIn(linksA, s2.accountedA))
                            = Range(removed)

C18_Witness ==
  /\ pc = "returned"
  /\ Len(anchorOrder(linksA, linksB)) >= 2
  /\ Len(changedUrl) >= 1
  /\ Len(changedAnchorText) >= 1

WordEnd(s, i) ==
  CHOOSE j \in i..Len(s) :
    /\ \A k \in i..j : s[k] \notin Whitespace
    /\ j = Len(s) \/ s[j + 1] \in Whitespace

RECURSIVE WordsFrom(_, _)
WordsFrom(s, i) ==
  IF i > Len(s) THEN <<>>
  ELSE IF s[i] \in Whitespace THEN WordsFrom(s, i + 1)
       ELSE <<SubSeq(s, i, WordEnd(s, i))>> \o WordsFrom(s, WordEnd(s, i) + 1)

Words(s) == WordsFrom(s, 1)

RECURSIVE Join(_)
Join(w) ==
  IF w = <<>> THEN <<>>
  ELSE IF Len(w) = 1 THEN w[1]
       ELSE w[1] \o <<" ">> \o Join(Tail(w))

SameWords(t, u) == t # Null /\ u # Null /\ Words(t) = Words(u)

AnchorTexts == {l.anchorText : l \in AllLinks}

(* C19: the normalized anchor text is the text's words joined by single    *)
(* spaces; two links of one part whose anchor texts have the same words    *)
(* are in the same first-pass group and are never the two sides of a       *)
(* changedAnchorText pair; normalizing a normalized text changes nothing.  *)
(* The links are those of the call, examined as the first pass starts.     *)
C19_WhitespaceInsensitiveText ==
  /\ pc = "pass1" =>
       /\ \A t \in AnchorTexts :
            LET n == normalizeText(t)
            IN /\ t # Null => n = Join(Words(t))
               /\ normalizeText(n) = n
       /\ \A t, u \in AnchorTexts :
            SameWords(t, u) =>
              \A l, m \in AllLinks :
                (l.anchorText = t /\ m.anchorText = u /\ l.part = m.part)
                  => anchorKey(l) = anchorKey(m)
  /\ pc \in {"classify", "returned"} =>
       \A i \in DOMAIN changedAnchorText :
         ~SameWords(changedAnchorText[i].before.anchorText,
                    changedAnchorText[i].after.anchorText)

C19_Witness ==
  /\ pc = "returned"
  /\ Len(linksA) = 1
  /\ Len(linksB) = 1
  /\ linksA[1].anchorText = TextAB
  /\ linksB[1].anchorText = TextATabB
  /\ SameUrl(linksA[1], linksB[1])
  /\ NoBuckets
  /\ Len(matched) = 1

ReportedBefore ==
  Range(removed) \cup Befores(changedUrl) \cup Befores(changedAnchorText)

ReportedAfter ==
  Range(added) \cup Afters(changedUrl) \cup Afters(changedAnchorText)

(* C20: no reported before link (removed, or the before of a pair) has     *)
(* the part, normalized anchor text and normalized URL of a reported       *)
(* after link; the number of true matches is the sum, over the triples     *)
(* (part, anchor text, URL), of the smaller of the triple's counts in      *)
(* before and in after.                                                    *)
C20_TrueMatchesAreMaximal ==
  pc = "returned" =>
    /\ \A l \in ReportedBefore, m \in ReportedAfter : Triple(l) # Triple(m)
    /\ Len(linksA) - Cardinality(ReportedBefore)
         = SumOver({Triple(l) : l \in AllLinks}, linksA, linksB)

(* C21: in the returned result no removed link has the part and the       *)
(* normalized anchor text of an added link, and no removed link has the    *)
(* part and the normalized URL of an added link.                           *)
C21_NoRemovedAddedCouple ==
  pc = "returned" =>
    \A i \in DOMAIN removed, j \in DOMAIN added :
      /\ ~SameGroup(removed[i], added[j])
      /\ ~SameUrlGroup(removed[i], added[j])

\* a removed and an added link of one part stay side by side, next to a
\* pair of each kind
C21_Witness ==
  /\ pc = "returned"
  /\ removed # <<>>
  /\ added # <<>>
  /\ removed[1].part = added[1].part
  /\ Len(changedUrl) + Len(changedAnchorText) >= 1

Mirror(pairs) == {<<pairs[i].after, pairs[i].before>> : i \in DOMAIN pairs}

AsCouples(pairs) == {<<pairs[i].before, pairs[i].after>> : i \in DOMAIN pairs}

(* C22: (b, a) is a pair of changedUrl (of changedAnchorText) of the call  *)
(* on (before, after) exactly when (a, b) is a pair of changedUrl (of      *)
(* changedAnchorText) of the call on (after, before).                      *)
C22_SwapMirrorsPairs ==
  pc = "returned" =>
    LET args == <<filePathA, filePathB>>
        swapped == <<filePathB, filePathA>>
    IN (args \in DOMAIN results /\ swapped \in DOMAIN results) =>
         /\ AsCouples(results[args].changedUrl)
              = Mirror(results[swapped].changedUrl)
         /\ AsCouples(results[args].changedAnchorText)
              = Mirror(results[swapped].changedAnchorText)
         /\ AsCouples(results[swapped].changedUrl)
              = Mirror(results[args].changedUrl)
         /\ AsCouples(results[swapped].changedAnchorText)
              = Mirror(results[args].changedAnchorText)

\* both orders were called on lists of different lengths with duplicates
C22_Witness ==
  /\ DOMAIN results = {<<"docxA", "docxB">>, <<"docxB", "docxA">>}
  /\ Len(files.docxA.links) > Len(files.docxB.links)
  /\ HasDuplicates(files.docxA.links)
  /\ Len(results[<<"docxA", "docxB">>].changedUrl) >= 1
  /\ Len(results[<<"docxA", "docxB">>].removed) >= 1

(* C23: the number of changedUrl pairs is the sum, over the (part, anchor  *)
(* text) groups, of the smaller side of the group less the group's true    *)
(* matches, a number that does not depend on the order of the lists; after *)
(* the first pass a group has unconsumed links on at most one side.        *)
C23_ChangedUrlCountByGroup ==
  pc = "filter" =>
    /\ Len(changedUrl)
         = ChangedUrlOwed({Group(l) : l \in AllLinks}, linksA, linksB)
    /\ \A l \in AllLinks :
         \/ \A i \in DOMAIN linksA :
              Group(linksA[i]) = Group(l) => linksA[i] \in accountedA
         \/ \A j \in DOMAIN linksB :
              Group(linksB[j]) = Group(l) => linksB[j] \in accountedB

(* C24: among the links of one list with the same part, normalized anchor  *)
(* text and normalized URL the consumed ones come first: after a removed   *)
(* (an added) link every later link of the list with the same three is     *)
(* removed (added) too.                                                    *)
C24_SurplusDuplicatesFromEnd ==
  pc = "returned" =>
    /\ \A i, j \in DOMAIN linksA :
         (i < j /\ Triple(linksA[i]) = Triple(linksA[j])
                /\ Occurs(removed, linksA[i]) > 0)
           => Occurs(removed, linksA[j]) > 0
    /\ \A i, j \in DOMAIN linksB :
         (i < j /\ Triple(linksB[i]) = Triple(linksB[j])
                /\ Occurs(added, linksB[i]) > 0)
           => Occurs(added, linksB[j]) > 0

\* two after links with the same three, the first consumed, the second added
C24_Witness ==
  /\ pc = "returned"
  /\ Len(linksB) >= 2
  /\ Triple(linksB[1]) = Triple(linksB[2])
  /\ Occurs(added, linksB[1]) = 0
  /\ Occurs(added, linksB[2]) = 1

Settled(state) == state \in {"fulfilled", "rejected"}

\* unlink has been carried out on the file of a field, settled or not
Attempted(f) == request.unlinks[f] \in {"unlinked", "settled"}

(* C25: once the form of a POST request is parsed, the removal of the      *)
(* temporary file of docxA and of docxB is attempted before the handler    *)
(* completes, on success and on any error; a removal is attempted only     *)
(* after the response is sent and after the hyperlink comparison has       *)
(* finished reading the file; a failing removal leaves the handler to      *)
(* complete with its one response.                                         *)
C25_UploadsRemovedAfterUse ==
  /\ (request.pc = "done" /\ request.parsed) =>
       \A f \in Fields :
         request.uploads[f] # Missing => request.unlinks[f] = "settled"
  /\ request.pc \notin {"none", "start"} =>
       \A f \in Fields :
         Attempted(f) =>
           /\ Len(request.responses) = 1
           /\ request.extractions[f] \notin {"readFile", "reading"}
           /\ f \in request.warnings => request.pc \in {"cleaning", "done"}

\* an entry name carries the main document
HasDocumentXml(entries) == \E e \in entries : e = "word/document.xml"

(* C26: every request gets exactly one response: 405 with Allow: POST and  *)
(* nothing parsed or processed when the method is not POST; 200 with       *)
(* originalHtml, revisedHtml, diffHtml, changes and hyperlinkSummary when  *)
(* every step succeeded; 400 with the message of the error of the failed   *)
(* step, or 'Unable to compare documents.' when that message is empty,     *)
(* and no part of a result.                                                *)
FirstFailures ==
  LET up == request.uploads
      invalid == {f \in Fields : validateFile(up[f]) # NoError}
      unreadable == {f \in Fields : up[f].kind # "file"}
      unconverted == {f \in Fields : docxToAcceptedContent(up[f]).error # NoError}
  IN IF request.parseError # NoError THEN {request.parseError}
     ELSE IF invalid # {}
     THEN {validateFile(up[IF "docxA" \in invalid THEN "docxA" ELSE "docxB"])}
     ELSE IF unreadable # {}
     THEN {readFileError(up[f].kind, Filepath(f)) : f \in unreadable}
     ELSE IF unconverted # {}
     THEN {docxToAcceptedContent(up[f]).error : f \in unconverted}
     ELSE IF request.diffError # NoError THEN {request.diffError}
     ELSE UNION {extractErrors(up[f], Filepath(f)) : f \in Fields}

C26_ExactlyOneResponse ==
  (request.pc # "none" /\ request.handler = CompareHandler) =>
    /\ Len(request.responses) <= 1
    /\ request.pc = "done" => Len(request.responses) = 1
    /\ request.responses # <<>> =>
         LET response == request.responses[1]
         IN IF request.method # "POST"
            THEN /\ response.status = 405
                 /\ <<"Allow", "POST">> \in request.headers
                 /\ ~request.parsed
                 /\ \A f \in Fields :
                      /\ request.reads[f] = "idle"
                      /\ request.conversions[f].state = "idle"
                      /\ request.extractions[f] = "idle"
            ELSE IF FirstFailures = {}
            THEN /\ response.status = 200
                 /\ DOMAIN response.body
                      = {"originalHtml", "revisedHtml", "diffHtml", "changes",
                         "hyperlinkSummary"}
                 /\ response.body.hyperlinkSummary
                      = correlate(extractedLinks(request.uploads.docxA),
                                  extractedLinks(request.uploads.docxB))
            ELSE /\ response.status = 400
                 /\ response.body
                      \in {IF e = "" THEN "Unable to compare documents." ELSE e :
                             e \in FirstFailures}

\* the HTML diff of the compare handler failed with an empty message
C26_Witness ==
  /\ request.pc = "done"
  /\ request.handler = CompareHandler
  /\ request.method = "POST"
  /\ request.conversions.docxA.state = "fulfilled"
  /\ request.conversions.docxB.state = "fulfilled"
  /\ request.diffError = ""
  /\ request.responses
       = <<[status |-> 400, body |-> "Unable to compare documents."]>>

(* C27: on an archive without the entry word/document.xml the conversion   *)
(* fails with 'The uploaded file is not a valid .docx document.' and no    *)
(* XML part has been rewritten.                                            *)
C27_NoDocumentXmlRejected ==
  request.pc # "none" =>
    \A f \in Fields :
      (/\ Settled(request.conversions[f].state)
       /\ request.uploads[f].zip = NoError
       /\ ~HasDocumentXml(request.uploads[f].entries))
        => /\ request.conversions[f].state = "rejected"
           /\ request.conversions[f].error
                = "The uploaded file is not a valid .docx document."
           /\ request.conversions[f].rewritten = {}

\* the name ends in .docx, in any mix of upper and lower case
EndsInDocx(name) ==
  /\ name # Null
  /\ Len(name) >= 5
  /\ name[Len(name) - 4] = "."
  /\ name[Len(name) - 3] \in {"d", "D"}
  /\ name[Len(name) - 2] \in {"o", "O"}
  /\ name[Len(name) - 1] \in {"c", "C"}
  /\ name[Len(name)] \in {"x", "X"}

Validated == request.pc \notin {"none", "start", "parsing", "validate"}

(* C28: an upload is rejected with 'Only .docx files are supported.'       *)
(* exactly when its MIME type is not the Word type and its name does not   *)
(* end in .docx in any case; a missing upload is rejected with 'Missing    *)
(* file in upload.'; no file is read or converted unless both uploads      *)
(* passed.                                                                 *)
C28_OnlyDocxAccepted ==
  (request.pc # "none" /\ request.method = "POST") =>
    /\ \A f \in Fields :
         LET file == request.uploads[f]
         IN /\ validateFile(file) = "Missing file in upload." <=> file = Missing
            /\ validateFile(file) = "Only .docx files are supported."
                 <=> /\ file # Missing
                     /\ file.mimetype # AllowedMime
                     /\ ~EndsInDocx(file.originalFilename)
    /\ (Validated /\ request.parsed) =>
         LET original == request.uploads.docxA
             revised == request.uploads.docxB
             rejected == validateFile(original) # NoError
                           \/ validateFile(revised) # NoError
         IN /\ rejected =>
                 /\ request.thrown
                      = IF validateFile(original) # NoError
                        THEN validateFile(original) ELSE validateFile(revised)
                 /\ \A f \in Fields :
                      /\ request.reads[f] = "idle"
                      /\ request.conversions[f].state = "idle"
                      /\ request.extractions[f] = "idle"
                 /\ request.responses # <<>> =>
                      request.responses[1]
                        = [status |-> 400, body |-> request.thrown]
            /\ (\E f \in Fields : request.reads[f] # "idle") => ~rejected

\* the first upload passes by its name alone, the second is rejected
C28_Witness ==
  /\ request.pc = "done"
  /\ request.uploads.docxA # Missing
  /\ request.uploads.docxB # Missing
  /\ request.uploads.docxA.mimetype = OtherMime
  /\ request.uploads.docxA.originalFilename = NameUpper
  /\ request.uploads.docxB.mimetype = OtherMime
  /\ request.uploads.docxB.originalFilename = NameDocxInside
  /\ request.responses
       = <<[status |-> 400, body |-> "Only .docx files are supported."]>>

====
